---- MODULE Spec2Model ----
(***************************************************************************)
(* Read-only storage synchronisation of CLIProxyAPI: the Git scheduler     *)
(* (internal/store, GitScheduler), the management handlers that toggle     *)
(* read-only mode and the sync interval, and the side-file persistence.    *)
(***************************************************************************)
EXTENDS Integers, FiniteSets, Sequences, Bags, TLC

(* ------------------------------------------------------------------ *)
(* Bounds of the model                                                  *)
(* ------------------------------------------------------------------ *)
\* Loop goroutines of one scheduler that may be alive at the same time.
MaxLoops == 2
\* Largest sync interval (minutes) held by a configuration object or file.
MaxInterval == 2
MaxEnvLen == 2

(* ------------------------------------------------------------------ *)
(* Value domains                                                        *)
(* ------------------------------------------------------------------ *)
\* *config.Config objects; NilCfg is the nil pointer.
CfgRefs == {"cfgA", "cfgB"}
NilCfg == "nil"
\* The configuration object the server, the handler and the side-file
\* watcher are constructed with.
BootCfg == "cfgA"
Intervals == 0..MaxInterval
\* Goroutines that call into the scheduler: a management request handler,
\* the server's own lifecycle code, and a run goroutine from inside the
\* completion callback it invoked.
Threads == {"api", "main", "loop"}

VARIABLES
  running,      \* GitScheduler.running
  stopCh,       \* the channel GitScheduler.stopCh refers to: "open" or "closed"
  config,       \* GitScheduler.config
  tokenStore,   \* GitScheduler.tokenStore # nil
  loops,        \* bag of live run() goroutines: position, stop channel,
                \* ctx cancelled, local cfg
  panicked,     \* a goroutine panicked (close of closed channel)
  lastCall,     \* how the most recent Start / Stop / UpdateConfig call went
  cfgRO,        \* Config read-only flag, per configuration object (atomic)
  cfgInt,       \* Config sync interval minutes, per configuration object
  tpc,          \* position of each calling goroutine (with UpdateConfig's
                \* local shouldRun folded into "uc_start" / "uc_stop")
  hsched,       \* Handler.scheduler # nil
  hreq,         \* the parsed request the handler is working on
  resp,         \* the response written to the request last handled
  mainFile,     \* storage settings held by the main configuration file
  sideFile,     \* content of data/read_only_storage.json
  watchEv,      \* a write/create event for the side file awaits the watcher
  pending,      \* the working copy has uncommitted or unpushed changes
  failedAttempts, \* Handler.failedAttempts: attemptInfo per client address
  now,          \* time.Now(), in units of TimeUnitMinutes
  inflight,     \* bag of non-local requests between the ban check and the
                \* credential check
  authResp,     \* the answer the middleware gave last: address and result
  guardCfg,     \* allow-remote flag and which secrets are configured
  everBanned,   \* history: the addresses a ban was ever set for
  verified,     \* history: wrong credentials verified per address since its
                \* last ban start or successful authentication (saturating)
  remoteHead,   \* the commit the remote's default branch points to
  work,         \* the commit the local working copy is at
  boot,         \* a caller of PersistReadOnlyState / LoadReadOnlyStorageConfig:
                \* its position, its arguments and the error returned
  watch,        \* the side-file watcher's goroutine: its position, its
                \* context cancelled, its fsnotify handle open, and an event
                \* that is not a write/create of the side file awaiting it
  env,          \* the process environment (READ_ONLY, SYNC_INTERVAL_MINUTES)
                \* and the Config the last LoadConfigOptional returned
  race,         \* calls of persistBothToJSONAfterUnlock in progress, step
                \* by step, and the length of a side file that does not parse
  onSyncComplete, \* GitScheduler.onSyncComplete is set (not nil)
  timer         \* the interval run read for its timer and the Duration it
                \* computed from it

\* The access-control middleware's state; nothing else reads or writes it.
guardVars == <<failedAttempts, now, inflight, authResp, guardCfg, everBanned,
               verified>>
\* The completion callback's registration and the timer arithmetic.
hooks == <<onSyncComplete, timer>>
\* What neither the scheduler's methods nor the management handlers touch.
aside == <<guardVars, remoteHead, boot, watch, env, race, onSyncComplete,
          timer>>
cfgVars == <<cfgRO, cfgInt>>
fileVars == <<mainFile, sideFile, watchEv>>
handlerVars == <<hsched, hreq, resp>>
\* Everything the scheduler's own methods never touch.
outsideSched == <<tokenStore, cfgRO, cfgInt, hsched, hreq, resp, mainFile,
                  sideFile, watchEv, pending, work, aside>>
vars == <<running, stopCh, config, tokenStore, loops, panicked, lastCall,
          cfgRO, cfgInt, tpc, hsched, hreq, resp, mainFile, sideFile,
          watchEv, pending, failedAttempts, now, inflight, authResp, guardCfg,
          everBanned, verified, remoteHead, work, boot, watch, env, race,
          onSyncComplete, timer>>

\* Handler.cfg: set by NewHandler.
hcfg == BootCfg

\* A run() goroutine as launched by `go s.run(ch)`.
\* syncErr: what s.sync() returned is an error, while run holds it.
\* mu: the goroutine holds s.mu between two of its steps.
NewLoop(ch) == [pc |-> "top", ch |-> ch, ctxDone |-> FALSE, cfg |-> NilCfg,
                syncErr |-> FALSE, mu |-> FALSE]

AliveLoops == BagToSet(loops)
NumLoops == BagCardinality(loops)
\* s.mu is held by no goroutine that is between two steps.
MuFree == \A l \in AliveLoops : ~l.mu

\* A goroutine's stop channel is either the one s.stopCh refers to now
\* ("cur") or one that Start has replaced ("old").  Start closes a channel
\* before replacing it and nothing else refers to it, so "old" is closed.
ChClosed(l) == l.ch = "old" \/ stopCh = "closed"
\* s.stopCh = make(chan struct{}): every goroutine holding the previous
\* channel now holds a replaced one.
Replaced(ls) ==
  [x \in {[r EXCEPT !.ch = "old"] : r \in BagToSet(ls)} |->
     CopiesIn(x, ls) + CopiesIn([x EXCEPT !.ch = "cur"], ls)]

\* Where a scheduler call made by goroutine t returns to: the handler goes
\* on to persist, the lifecycle code is done.
Ret(t) == IF t = "api" THEN "h_persist" ELSE "idle"

(* ------------------------------------------------------------------ *)
(* GitScheduler.Start                                                   *)
(* ------------------------------------------------------------------ *)
\* The critical section of Start (everything under s.mu).  A running
\* scheduler is stopped first: its channel is closed and replaced.
\* close(s.stopCh) panics when the channel is already closed.
StartLocked(t) ==
  IF running /\ stopCh = "closed"
  THEN /\ panicked' = TRUE
       /\ UNCHANGED <<running, stopCh, config, loops, lastCall, tpc, outsideSched>>
  ELSE /\ stopCh' = IF running THEN "open" ELSE stopCh
       /\ loops' = IF running THEN Replaced(loops) ELSE loops
       /\ IF config = NilCfg \/ ~tokenStore
          THEN /\ running' = FALSE
               /\ lastCall' = "err"
               /\ tpc' = [tpc EXCEPT ![t] = Ret(t)]
          ELSE /\ running' = TRUE
               /\ lastCall' = "start"
               /\ tpc' = [tpc EXCEPT ![t] = "start_go"]
       /\ UNCHANGED <<config, panicked, outsideSched>>

\* go s.run(s.stopCh): executed after the lock is released, so it reads
\* whatever s.stopCh holds at that moment.
StartGo(t) ==
  /\ ~panicked
  /\ tpc[t] = "start_go"
  /\ NumLoops < MaxLoops
  /\ loops' = loops (+) SetToBag({NewLoop("cur")})
  /\ tpc' = [tpc EXCEPT ![t] = Ret(t)]
  /\ UNCHANGED <<running, stopCh, config, panicked, lastCall, outsideSched>>

(* ------------------------------------------------------------------ *)
(* GitScheduler.Stop                                                    *)
(* ------------------------------------------------------------------ *)
\* Mutant: Stop without the `if !s.running` early return.
StopBody_NoGuard(t) ==
  IF stopCh = "closed"
  THEN /\ panicked' = TRUE
       /\ UNCHANGED <<running, stopCh, config, loops, lastCall, tpc, outsideSched>>
  ELSE /\ stopCh' = "closed"
       /\ running' = FALSE
       /\ lastCall' = "stop"
       /\ tpc' = [tpc EXCEPT ![t] = Ret(t)]
       /\ UNCHANGED <<config, loops, panicked, outsideSched>>

StopBody(t) ==
  IF ~running
  THEN /\ lastCall' = "stop_noop"
       /\ tpc' = [tpc EXCEPT ![t] = Ret(t)]
       /\ UNCHANGED <<running, stopCh, config, loops, panicked, outsideSched>>
  ELSE IF stopCh = "closed"
  THEN /\ panicked' = TRUE
       /\ UNCHANGED <<running, stopCh, config, loops, lastCall, tpc, outsideSched>>
  ELSE /\ stopCh' = "closed"
       /\ running' = FALSE
       /\ lastCall' = "stop"
       /\ tpc' = [tpc EXCEPT ![t] = Ret(t)]
       /\ UNCHANGED <<config, loops, panicked, outsideSched>>

(* ------------------------------------------------------------------ *)
(* GitScheduler.UpdateConfig                                            *)
(* ------------------------------------------------------------------ *)
\* Mutant: UpdateConfig that restarts a running scheduler on every call with
\* read-only on (Start() whenever shouldRun, without comparing isRunning).
UpdateConfigLocked_AlwaysStart(t, c) ==
  IF c = NilCfg
  THEN /\ lastCall' = "err"
       /\ tpc' = [tpc EXCEPT ![t] = Ret(t)]
       /\ UNCHANGED <<running, stopCh, config, loops, panicked, outsideSched>>
  ELSE /\ config' = c
       /\ IF cfgRO[c]
          THEN /\ tpc' = [tpc EXCEPT ![t] = "uc_start"]
               /\ UNCHANGED lastCall
          ELSE IF running
          THEN /\ tpc' = [tpc EXCEPT ![t] = "uc_stop"]
               /\ UNCHANGED lastCall
          ELSE /\ tpc' = [tpc EXCEPT ![t] = Ret(t)]
               /\ lastCall' = "uc_same"
       /\ UNCHANGED <<running, stopCh, loops, panicked, outsideSched>>

\* First critical section: store the reference, snapshot desired and
\* actual run state, release the lock.
UpdateConfigLocked(t, c) ==
  IF c = NilCfg
  THEN /\ lastCall' = "err"
       /\ tpc' = [tpc EXCEPT ![t] = Ret(t)]
       /\ UNCHANGED <<running, stopCh, config, loops, panicked, outsideSched>>
  ELSE LET shouldRun == cfgRO[c]
           isRunning == running
       IN /\ config' = c
          /\ IF shouldRun # isRunning
             THEN /\ tpc' = [tpc EXCEPT ![t] =
                                 IF shouldRun THEN "uc_start" ELSE "uc_stop"]
                  /\ UNCHANGED lastCall
             ELSE /\ tpc' = [tpc EXCEPT ![t] = Ret(t)]
                  /\ lastCall' = "uc_same"
          /\ UNCHANGED <<running, stopCh, loops, panicked, outsideSched>>

\* After the lock is released: Start() or Stop() on mismatch.
UpdateConfigDispatch(t) ==
  /\ ~panicked
  /\ tpc[t] \in {"uc_start", "uc_stop"}
  /\ IF tpc[t] = "uc_start" THEN StartLocked(t) ELSE StopBody(t)

(* ------------------------------------------------------------------ *)
(* GitScheduler.run: one goroutine per successful Start                 *)
(* ------------------------------------------------------------------ *)
\* The goroutine in state l moves to state r / returns.
SetLoop(l, r) == loops' = (loops (-) SetToBag({l})) (+) SetToBag({r})
EndLoop(l) == loops' = loops (-) SetToBag({l})

loopFrame == <<running, stopCh, config, tokenStore, panicked, lastCall, cfgRO,
               cfgInt, tpc, hsched, hreq, resp, mainFile, sideFile, watchEv,
               aside>>

\* A helper that waits on the field s.stopCh, whatever channel it holds, in
\* place of the channel run was given.
CtxCancel_FieldChannel(l) ==
  /\ ~panicked
  /\ ~l.ctxDone
  /\ stopCh = "closed"
  /\ SetLoop(l, [l EXCEPT !.ctxDone = TRUE])
  /\ UNCHANGED <<loopFrame, pending, work>>

\* The helper goroutine of run: <-stopCh; cancel().
CtxCancel(l) ==
  /\ ~panicked
  /\ ~l.ctxDone
  /\ ChClosed(l)
  /\ SetLoop(l, [l EXCEPT !.ctxDone = TRUE])
  /\ UNCHANGED <<loopFrame, pending, work>>

\* Top of the for loop: read s.config and s.running under the lock and
\* return when not running.
LoopTop(l) ==
  /\ ~panicked
  /\ l.pc = "top"
  /\ IF ~running
     THEN EndLoop(l)
     ELSE SetLoop(l, [l EXCEPT !.cfg = config, !.pc = "check"])
  /\ UNCHANGED <<loopFrame, pending, work>>

\* The loop arming the interval timer first and syncing when it fires.
LoopCheck_TimerFirst(l) ==
  /\ ~panicked
  /\ l.pc = "check"
  /\ IF l.cfg # NilCfg /\ cfgRO[l.cfg]
     THEN SetLoop(l, [l EXCEPT !.pc = "wait", !.cfg = NilCfg])
     ELSE SetLoop(l, [l EXCEPT !.pc = "idle", !.cfg = NilCfg])
  /\ UNCHANGED <<loopFrame, pending, work>>

\* if cfg != nil && cfg.IsReadOnlyStorage(): on the copy read at the top.
LoopCheck(l) ==
  /\ ~panicked
  /\ l.pc = "check"
  /\ IF l.cfg # NilCfg /\ cfgRO[l.cfg]
     THEN SetLoop(l, [l EXCEPT !.pc = "sync"])
     ELSE SetLoop(l, [l EXCEPT !.pc = "idle", !.cfg = NilCfg])
  /\ UNCHANGED <<loopFrame, pending, work>>

\* sync(): consults s.config (not the loop's copy); with read-only off it
\* returns nil at once, otherwise the repository work begins.
SyncBegin(l) ==
  /\ ~panicked
  /\ l.pc = "sync"
  /\ IF cfgRO[config]
     THEN SetLoop(l, [l EXCEPT !.pc = "pull"])
     ELSE SetLoop(l, [l EXCEPT !.pc = "wait", !.cfg = NilCfg])
  /\ UNCHANGED <<loopFrame, pending, work>>

\* sync with a pull that merges what it fetched and keeps local changes
\* (worktree.Pull), in place of the forced fetch and the hard reset.
SyncEndWith_PassivePull(l, ok) ==
  /\ ~panicked
  /\ l.pc = "pull"
  /\ SetLoop(l, [l EXCEPT !.pc = "wait", !.cfg = NilCfg, !.syncErr = ~ok])
  /\ IF ok
     THEN /\ work' = IF pending THEN work ELSE remoteHead
          /\ pending' = pending
     ELSE UNCHANGED <<pending, work>>
  /\ UNCHANGED loopFrame

\* sync whose failure sends run straight back into another attempt.
SyncEndWith_RetryNow(l, ok) ==
  /\ ~panicked
  /\ l.pc = "pull"
  /\ SetLoop(l, IF ok THEN [l EXCEPT !.pc = "wait", !.cfg = NilCfg]
                ELSE [l EXCEPT !.pc = "sync"])
  /\ IF ok
     THEN /\ work' = remoteHead
          /\ pending' = FALSE
     ELSE UNCHANGED <<pending, work>>
  /\ UNCHANGED loopFrame

\* sync that keeps s.mu (a deferred Unlock) while the callback runs.
SyncEndWith_HoldLock(l, ok) ==
  /\ ~panicked
  /\ l.pc = "pull"
  /\ SetLoop(l, IF ok /\ onSyncComplete
                THEN [l EXCEPT !.pc = "callback", !.mu = TRUE]
                ELSE [l EXCEPT !.pc = "wait", !.cfg = NilCfg,
                               !.syncErr = ~ok])
  /\ IF ok
     THEN /\ work' = remoteHead
          /\ pending' = FALSE
     ELSE UNCHANGED <<pending, work>>
  /\ UNCHANGED loopFrame

\* sync that runs the callback when it returns, whatever it returns.
SyncEndWith_AlwaysCallback(l, ok) ==
  /\ ~panicked
  /\ l.pc = "pull"
  /\ SetLoop(l, IF onSyncComplete
                THEN [l EXCEPT !.pc = "callback", !.syncErr = ~ok]
                ELSE [l EXCEPT !.pc = "wait", !.cfg = NilCfg,
                               !.syncErr = ~ok])
  /\ IF ok
     THEN /\ work' = remoteHead
          /\ pending' = FALSE
     ELSE UNCHANGED <<pending, work>>
  /\ UNCHANGED loopFrame

\* EnsureRepository + pullChanges return.  ok: the forced fetch brought the
\* remote's head, the reference resolved and the hard reset put the working
\* copy on that commit, discarding every local change; s.onSyncComplete is
\* then read under s.mu, the lock released, and the callback, when there is
\* one, entered; without one sync returns nil.  Otherwise one of the steps
\* failed and sync returns the error, which run only logs.  After sync has
\* returned the interval timer is armed.
SyncEndWith(l, ok) ==
  /\ ~panicked
  /\ l.pc = "pull"
  /\ SetLoop(l, IF ok /\ onSyncComplete
                THEN [l EXCEPT !.pc = "callback"]
                ELSE [l EXCEPT !.pc = "wait", !.cfg = NilCfg,
                               !.syncErr = ~ok])
  /\ IF ok
     THEN /\ work' = remoteHead
          /\ pending' = FALSE
     ELSE UNCHANGED <<pending, work>>
  /\ UNCHANGED loopFrame

SyncEnd(l) == \E ok \in BOOLEAN : SyncEndWith(l, ok)

\* select { case <-timer.C: ... }
TimerFire(l) ==
  /\ ~panicked
  /\ l.pc = "wait"
  /\ SetLoop(l, [l EXCEPT !.pc = "top", !.syncErr = FALSE])
  /\ UNCHANGED <<loopFrame, pending, work>>

\* An idle wait without the one-second case: only the stop signal ends it.
IdleTick_NoPoll(l) ==
  /\ ~panicked
  /\ l.pc = "idle"
  /\ l.ctxDone
  /\ SetLoop(l, [l EXCEPT !.pc = "top"])
  /\ UNCHANGED <<loopFrame, pending, work>>

\* select { case <-time.After(1 * time.Second): ... }
IdleTick(l) ==
  /\ ~panicked
  /\ l.pc = "idle"
  /\ SetLoop(l, [l EXCEPT !.pc = "top"])
  /\ UNCHANGED <<loopFrame, pending, work>>

\* run with the context also interrupting a sync that is underway.
LoopExit_AnyPhase(l) ==
  /\ ~panicked
  /\ l.pc \in {"wait", "idle", "sync", "pull"}
  /\ l.ctxDone
  /\ EndLoop(l)
  /\ UNCHANGED <<loopFrame, pending, work>>

\* select { case <-ctx.Done(): return } in either branch.
LoopExit(l) ==
  /\ ~panicked
  /\ l.pc \in {"wait", "idle"}
  /\ l.ctxDone
  /\ EndLoop(l)
  /\ UNCHANGED <<loopFrame, pending, work>>

(* ------------------------------------------------------------------ *)
(* The completion callback                                              *)
(* ------------------------------------------------------------------ *)
cbFrame == <<guardVars, remoteHead, boot, watch, env, race, timer, work,
             running, stopCh, config, tokenStore, loops, panicked, lastCall,
             cfgVars, tpc, handlerVars, fileVars, pending>>

\* SetOnSyncComplete(callback), callback nil or not: the field is written
\* under s.mu.
SetOnSyncComplete(b) ==
  /\ ~panicked
  /\ MuFree
  /\ onSyncComplete # b
  /\ onSyncComplete' = b
  /\ UNCHANGED cbFrame

\* The callback calls s.Stop() on the goroutine of the loop that invoked it.
\* Stop begins with s.mu.Lock(), and the lock is not reentrant.
CallbackStop(l) ==
  /\ ~panicked
  /\ l.pc = "callback"
  /\ tpc["loop"] = "idle"
  /\ MuFree
  /\ StopBody("loop")

\* The callback calls s.UpdateConfig(c) with c's read-only flag off.
CallbackUpdateConfig(l) ==
  /\ ~panicked
  /\ l.pc = "callback"
  /\ tpc["loop"] = "idle"
  /\ MuFree
  /\ \E c \in CfgRefs :
       /\ ~cfgRO[c]
       /\ UpdateConfigLocked("loop", c)

\* callback() returns, then sync returns nil; a lock that sync still held
\* is released on the way out.
CallbackReturn(l) ==
  /\ ~panicked
  /\ l.pc = "callback"
  /\ tpc["loop"] = "idle"
  /\ SetLoop(l, [l EXCEPT !.pc = "wait", !.cfg = NilCfg, !.syncErr = FALSE,
                          !.mu = FALSE])
  /\ UNCHANGED <<loopFrame, pending, work>>

(* ------------------------------------------------------------------ *)
(* Calls made by the server's lifecycle code                            *)
(* ------------------------------------------------------------------ *)
CallStart ==
  /\ ~panicked
  /\ tpc["main"] = "idle"
  /\ StartLocked("main")

CallStop ==
  /\ ~panicked
  /\ tpc["main"] = "idle"
  /\ StopBody("main")

CallUpdateConfig ==
  /\ ~panicked
  /\ tpc["main"] = "idle"
  /\ \E c \in CfgRefs \cup {NilCfg} : UpdateConfigLocked("main", c)

\* Config.SetReadOnlyStorage / SetSyncIntervalMinutes: atomic setters open
\* to every goroutine.
SetReadOnlyStorage(c, b) == cfgRO' = [cfgRO EXCEPT ![c] = b]

SetSyncIntervalMinutes(c, n) == cfgInt' = [cfgInt EXCEPT ![c] = n]

\* Some other holder of a configuration object flips its read-only flag.
ExternalSetReadOnly ==
  /\ ~panicked
  /\ \E c \in CfgRefs, b \in BOOLEAN :
       /\ cfgRO[c] # b
       /\ SetReadOnlyStorage(c, b)
  /\ UNCHANGED <<running, stopCh, config, tokenStore, loops, panicked, lastCall,
                 cfgInt, tpc, hsched, hreq, resp, mainFile, sideFile, watchEv,
                 pending, work, aside>>

(* ------------------------------------------------------------------ *)
(* Persisted documents                                                  *)
(* ------------------------------------------------------------------ *)
\* config.ReadOnlyStorageConfig after json.Unmarshal / before MarshalIndent.
\* sync_interval_minutes is omitempty: 0 stands for a document without the
\* field (an explicit 0 unmarshals to the same struct).
SideDoc(ro, n) == [st |-> "ok", ro |-> ro, int |-> n]
SideAbsent == [st |-> "absent", ro |-> FALSE, int |-> 0]
SideMalformed == [st |-> "malformed", ro |-> FALSE, int |-> 0]
SideFiles == {SideAbsent, SideMalformed} \cup
             {SideDoc(ro, n) : ro \in BOOLEAN, n \in Intervals}
MainDocs == [ro : BOOLEAN, int : Intervals]

NoReq == [kind |-> "none", ro |-> FALSE, int |-> 0]

\* No timer armed yet; the configured interval is 1.
NoTimer == [n |-> 1, d |-> <<>>]

\* Goroutines that call persistBothToJSONAfterUnlock at the same time.
Writers == {"w1", "w2"}
NoWrite == [pc |-> "idle", ro |-> FALSE, int |-> 0]
NoRace == [w |-> [x \in Writers |-> NoWrite], flen |-> 0]

\* An environment variable: unset, or set to a string.  READ_ONLY holds one
\* of a few words; SYNC_INTERVAL_MINUTES holds a sequence of characters.
Unset == [set |-> FALSE, val |-> <<>>]
EnvWords == {<<"true">>, <<"false">>, <<"yes">>}
EnvChars == {"0", "1", "x"}
EnvStrings == UNION {[1..n -> EnvChars] : n \in 0..MaxEnvLen}
EnvVal(v) == [set |-> TRUE, val |-> v]
NoCfg == [st |-> "none", ro |-> FALSE, int |-> 0]
NoEnv == [readOnly |-> Unset, syncInterval |-> Unset, cfg |-> NoCfg]

\* The watcher after StartReadOnlyStorageWatcher returned nil: its goroutine
\* is in the select, the context is live, the handle is open.
WatchOn == [pc |-> "select", ctx |-> FALSE, handle |-> TRUE, other |-> FALSE]

(* ------------------------------------------------------------------ *)
(* Request bodies and their parsing                                     *)
(* ------------------------------------------------------------------ *)
\* A JSON value under one key of the request body, as the two parsers see
\* it: missing, a boolean, a number, or anything else.  A number is held in
\* halves (h = 3 is 1.5) so that fractional inputs exist.
JAbsent == [t |-> "absent", h |-> 0]
JOther == [t |-> "other", h |-> 0]
JBool(b) == [t |-> IF b THEN "true" ELSE "false", h |-> 0]
JNum(h) == [t |-> "num", h |-> h]
Halves == (-2)..(2 * MaxInterval)
BoolValues == {JAbsent, JOther, JBool(TRUE), JBool(FALSE), JNum(2)}
IntValues == {JAbsent, JOther, JBool(TRUE)} \cup {JNum(h) : h \in Halves}
\* The values tried under the alternate key.
AltValues == {JAbsent, JBool(TRUE), JBool(FALSE), JNum(1), JNum(2)}
\* valid = FALSE: the body is not a JSON object (ShouldBindJSON fails).
InvalidBody == [valid |-> FALSE, primary |-> JAbsent, alt |-> JAbsent]
Bodies(V) == [valid : {TRUE}, primary : V, alt : AltValues] \cup {InvalidBody}

IsBool(v) == v.t \in {"true", "false"}

\* Handler.parseBoolField -> (value, found)
parseBoolField(body) ==
  IF ~body.valid THEN [val |-> FALSE, found |-> FALSE]
  ELSE IF body.primary.t # "absent" /\ IsBool(body.primary)
  THEN [val |-> body.primary.t = "true", found |-> TRUE]
  ELSE IF body.alt.t # "absent" /\ IsBool(body.alt)
  THEN [val |-> body.alt.t = "true", found |-> TRUE]
  ELSE [val |-> FALSE, found |-> FALSE]

\* parseIntKey that converts to int without the whole-number test.
parseIntKey_NoWholeCheck(v, min) ==
  IF v.t = "num"
  THEN IF v.h \div 2 < min
       THEN [val |-> 0, found |-> TRUE, err |-> "bad_request"]
       ELSE [val |-> v.h \div 2, found |-> TRUE, err |-> "none"]
  ELSE [val |-> 0, found |-> TRUE, err |-> "bad_request"]

\* One key of parseIntField: the value is present.  float64 whole-number
\* test, int(f), then the minimum.  (The val.(int) case cannot occur for a
\* value decoded from JSON into map[string]any.)
parseIntKey(v, min) ==
  IF v.t = "num"
  THEN IF v.h % 2 # 0
       THEN [val |-> 0, found |-> TRUE, err |-> "bad_request"]
       ELSE IF v.h \div 2 < min
       THEN [val |-> 0, found |-> TRUE, err |-> "bad_request"]
       ELSE [val |-> v.h \div 2, found |-> TRUE, err |-> "none"]
  ELSE [val |-> 0, found |-> TRUE, err |-> "bad_request"]

\* Handler.parseIntField -> (value, found, error)
parseIntField(body, min) ==
  IF ~body.valid THEN [val |-> 0, found |-> FALSE, err |-> "none"]
  ELSE IF body.primary.t # "absent" THEN parseIntKey(body.primary, min)
  ELSE IF body.alt.t # "absent" THEN parseIntKey(body.alt, min)
  ELSE [val |-> 0, found |-> FALSE, err |-> "none"]

minSyncIntervalMinutes == 1

(* ------------------------------------------------------------------ *)
(* Side file and main configuration file                                *)
(* ------------------------------------------------------------------ *)
\* config.SaveConfigPreserveComments: the storage settings of the
\* configuration object as they stand when the file is written.
SaveConfigPreserveComments(c) == [ro |-> cfgRO[c], int |-> cfgInt[c]]

\* Handler.persistBothToJSONAfterUnlock: the content of the side file after
\* the call.  A missing file is read as {"read_only": false}; a file that
\* does not unmarshal, or a failed write, leaves the file as it is.
persistBothToJSONAfterUnlock_Overwrite(file, readOnly, syncIntervalMinutes, writeOk) ==
  IF ~writeOk THEN file
  ELSE SideDoc(readOnly, syncIntervalMinutes)

persistBothToJSONAfterUnlock(file, readOnly, syncIntervalMinutes, writeOk) ==
  IF file.st = "malformed" THEN file
  ELSE IF ~writeOk THEN file
  ELSE SideDoc(readOnly, syncIntervalMinutes)

\* LoadReadOnlyStorageConfig leaving the flag alone when there is no document.
LoadReadOnlyStorageConfig_KeepFlag(c) ==
  IF sideFile.st # "ok"
  THEN /\ UNCHANGED cfgRO
       /\ UNCHANGED cfgInt
  ELSE /\ SetReadOnlyStorage(c, sideFile.ro)
       /\ IF sideFile.int > 0
          THEN SetSyncIntervalMinutes(c, sideFile.int)
          ELSE UNCHANGED cfgInt

\* LoadReadOnlyStorageConfig without the test for a positive interval.
LoadReadOnlyStorageConfig_AnyInterval(c) ==
  IF sideFile.st # "ok"
  THEN /\ SetReadOnlyStorage(c, FALSE)
       /\ UNCHANGED cfgInt
  ELSE /\ SetReadOnlyStorage(c, sideFile.ro)
       /\ SetSyncIntervalMinutes(c, sideFile.int)

\* config.LoadReadOnlyStorageConfig(setter, path) on the configuration
\* object c.
LoadReadOnlyStorageConfig(c) ==
  IF sideFile.st # "ok"
  THEN /\ SetReadOnlyStorage(c, FALSE)
       /\ UNCHANGED cfgInt
  ELSE /\ SetReadOnlyStorage(c, sideFile.ro)
       /\ IF sideFile.int > 0
          THEN SetSyncIntervalMinutes(c, sideFile.int)
          ELSE UNCHANGED cfgInt

(* ------------------------------------------------------------------ *)
(* Management handlers (one request at a time on goroutine "api")       *)
(* ------------------------------------------------------------------ *)
schedAll == <<running, stopCh, config, tokenStore, loops, panicked, lastCall>>

\* The handler answers and the request is over.
Respond(r) ==
  /\ resp' = r
  /\ hreq' = NoReq
  /\ tpc' = [tpc EXCEPT !["api"] = "idle"]

\* PutStorageReadOnly up to the pending-changes check: parse the body.
PutStorageReadOnly ==
  /\ ~panicked
  /\ tpc["api"] = "idle"
  /\ \E body \in Bodies(BoolValues) :
       LET r == parseBoolField(body)
       IN IF ~r.found
          THEN Respond("bad_request")
          ELSE /\ hreq' = [kind |-> "ro", ro |-> r.val, int |-> 0]
               /\ resp' = "none"
               /\ tpc' = [tpc EXCEPT !["api"] =
                            IF r.val THEN "h_check" ELSE "h_set"]
  /\ UNCHANGED <<aside, work, schedAll, cfgVars, hsched, fileVars, pending>>

\* PutStorageSyncInterval up to the update: parse and validate the body.
PutStorageSyncIntervalBody(body) ==
  /\ ~panicked
  /\ tpc["api"] = "idle"
  /\ LET r == parseIntField(body, minSyncIntervalMinutes)
     IN IF r.err # "none"
        THEN Respond(r.err)
        ELSE IF ~r.found
        THEN Respond("bad_request")
        ELSE /\ hreq' = [kind |-> "int", ro |-> FALSE, int |-> r.val]
             /\ resp' = "none"
             /\ tpc' = [tpc EXCEPT !["api"] = "h_set"]
  /\ UNCHANGED <<aside, work, schedAll, cfgVars, hsched, fileVars, pending>>

PutStorageSyncInterval == \E body \in Bodies(IntValues) : PutStorageSyncIntervalBody(body)

\* GetStorageReadOnly / GetStorageSyncInterval: the value in the answer.
GetStorageReadOnly == cfgRO[hcfg]
GetStorageSyncInterval == cfgInt[hcfg]

\* ensureCanEnableReadOnly that never looks at the working copy.
ensureCanEnableReadOnly_NoCheck ==
  /\ ~panicked
  /\ tpc["api"] = "h_check"
  /\ tpc' = [tpc EXCEPT !["api"] = "h_set"]
  /\ UNCHANGED <<hreq, resp>>
  /\ UNCHANGED <<aside, work, schedAll, cfgVars, hsched, fileVars, pending>>

\* Handler.ensureCanEnableReadOnly, through GitScheduler.HasPendingLocalChanges
\* (err: the repository status could not be read).
ensureCanEnableReadOnly ==
  /\ ~panicked
  /\ tpc["api"] = "h_check"
  /\ IF hsched
     THEN IF ~tokenStore
          THEN Respond("check_error")
          ELSE \E err \in BOOLEAN :
                 IF err THEN Respond("check_error")
                 ELSE IF pending THEN Respond("conflict")
                 ELSE /\ tpc' = [tpc EXCEPT !["api"] = "h_set"]
                      /\ UNCHANGED <<hreq, resp>>
     ELSE /\ tpc' = [tpc EXCEPT !["api"] = "h_set"]
          /\ UNCHANGED <<hreq, resp>>
  /\ UNCHANGED <<aside, work, schedAll, cfgVars, hsched, fileVars, pending>>

\* updateStorageReadOnly / updateStorageSyncInterval: under h.mu, set the
\* field on the snapshot of h.cfg.
HandlerSet ==
  /\ ~panicked
  /\ tpc["api"] = "h_set"
  /\ IF hcfg # NilCfg
     THEN /\ IF hreq.kind = "ro"
             THEN SetReadOnlyStorage(hcfg, hreq.ro) /\ UNCHANGED cfgInt
             ELSE SetSyncIntervalMinutes(hcfg, hreq.int) /\ UNCHANGED cfgRO
          /\ tpc' = [tpc EXCEPT !["api"] = IF hsched THEN "h_uc" ELSE "h_persist"]
     ELSE /\ UNCHANGED cfgVars
          /\ tpc' = [tpc EXCEPT !["api"] = "h_persist"]
  /\ UNCHANGED <<aside, work, schedAll, handlerVars, fileVars, pending>>

\* ... still under h.mu: _ = h.scheduler.UpdateConfig(cfgSnapshot)
HandlerUpdateConfig ==
  /\ ~panicked
  /\ tpc["api"] = "h_uc"
  /\ UpdateConfigLocked("api", hcfg)

\* h.mu with `defer h.mu.Unlock()`: held until updateStorage... returns,
\* that is, across persistConfig as well.
muHeld_Deferred ==
  tpc["api"] \in {"h_uc", "uc_start", "uc_stop", "start_go", "h_persist", "h_side"}

\* h.mu is held by the request: from h.mu.Lock() at the head of
\* updateStorageReadOnly / updateStorageSyncInterval, through the call of
\* h.scheduler.UpdateConfig, to the explicit h.mu.Unlock() before the
\* persistence calls.  (HandlerSet locks, and unlocks itself when there is
\* no scheduler to update.)
muHeld ==
  tpc["api"] \in {"h_uc", "uc_start", "uc_stop", "start_go"}

\* h.persistConfig(): Handler.persist(nil), which takes h.mu for its
\* snapshot and writes after releasing it; the result is dropped.
HandlerPersistConfig ==
  /\ ~panicked
  /\ tpc["api"] = "h_persist"
  /\ ~muHeld
  /\ \E ok \in BOOLEAN :
       mainFile' = IF ok THEN SaveConfigPreserveComments(hcfg) ELSE mainFile
  /\ tpc' = [tpc EXCEPT !["api"] = "h_side"]
  /\ UNCHANGED <<aside, work, schedAll, cfgVars, handlerVars, sideFile, watchEv, pending>>

\* persistReadOnlyToJSONAfterUnlock / persistSyncIntervalToJSONAfterUnlock
\* (the other field is read from h.cfg now, under h.mu.RLock()), then the
\* 200 response.
HandlerPersistSide ==
  /\ ~panicked
  /\ tpc["api"] = "h_side"
  /\ ~muHeld
  /\ \E writeOk \in BOOLEAN :
       LET ro == IF hreq.kind = "ro" THEN hreq.ro
                 ELSE IF hcfg # NilCfg THEN cfgRO[hcfg] ELSE FALSE
           n == IF hreq.kind = "int" THEN hreq.int
                ELSE IF hcfg # NilCfg THEN cfgInt[hcfg] ELSE 0
           new == persistBothToJSONAfterUnlock(sideFile, ro, n, writeOk)
       IN /\ sideFile' = new
          /\ watchEv' = (watchEv \/ (sideFile.st # "malformed" /\ writeOk))
  /\ Respond("ok")
  /\ UNCHANGED <<aside, work, schedAll, cfgVars, hsched, mainFile, pending>>

\* Handler.SetScheduler: the scheduler is wired after construction.
SetScheduler ==
  /\ ~panicked
  /\ ~hsched
  /\ hsched' = TRUE
  /\ UNCHANGED <<aside, work, schedAll, cfgVars, tpc, hreq, resp, fileVars, pending>>

(* ------------------------------------------------------------------ *)
(* Side-file watcher and the world outside the process                  *)
(* ------------------------------------------------------------------ *)
\* A watcher that gives up when a reload fails.
WatcherReload_StopOnError ==
  /\ ~panicked
  /\ watch.pc = "select"
  /\ watchEv
  /\ watchEv' = FALSE
  /\ LoadReadOnlyStorageConfig(BootCfg)
  /\ watch' = IF sideFile.st = "malformed"
              THEN [watch EXCEPT !.pc = "done", !.handle = FALSE]
              ELSE watch
  /\ UNCHANGED <<guardVars, remoteHead, boot, env, race, hooks, work, schedAll, tpc,
                 handlerVars, mainFile, sideFile, pending>>

\* StartReadOnlyStorageWatcher's goroutine: a write/create event for the
\* side file reloads it into the configuration object; the outcome is
\* logged and the loop goes on.
WatcherReload ==
  /\ ~panicked
  /\ watch.pc = "select"
  /\ watchEv
  /\ watchEv' = FALSE
  /\ LoadReadOnlyStorageConfig(BootCfg)
  /\ watch' = watch
  /\ UNCHANGED <<guardVars, remoteHead, boot, env, race, hooks, work, schedAll, tpc,
                 handlerVars, mainFile, sideFile, pending>>

watchFrame == <<guardVars, remoteHead, boot, env, race, hooks, work, schedAll, cfgVars, tpc,
                handlerVars, fileVars, pending>>

\* Something else happens in the watched directory: an event for another
\* file, or a remove / rename / chmod of the side file.
OtherEvent ==
  /\ ~watch.other
  /\ watch.handle
  /\ watch' = [watch EXCEPT !.other = TRUE]
  /\ UNCHANGED watchFrame

\* The goroutine receives such an event: the test on name and operation
\* fails and the loop goes on.  A watcher error is logged the same way.
WatcherIgnore ==
  /\ watch.pc = "select"
  /\ watch.other
  /\ watch' = [watch EXCEPT !.other = FALSE]
  /\ UNCHANGED watchFrame

\* The caller cancels the context passed to StartReadOnlyStorageWatcher.
WatcherCancel ==
  /\ ~watch.ctx
  /\ watch' = [watch EXCEPT !.ctx = TRUE]
  /\ UNCHANGED watchFrame

\* case <-ctx.Done(): return, with the deferred watcher.Close().
WatcherExit ==
  /\ watch.pc = "select"
  /\ watch.ctx
  /\ watch' = [watch EXCEPT !.pc = "done", !.handle = FALSE, !.other = FALSE]
  /\ UNCHANGED watchFrame

\* Another process or an operator rewrites or removes the side file.
SideFileEdit ==
  /\ ~panicked
  /\ \E f \in SideFiles :
       /\ f # sideFile
       /\ sideFile' = f
       /\ watchEv' = (watchEv \/ f.st # "absent")
  /\ UNCHANGED <<aside, work, schedAll, cfgVars, tpc, handlerVars, mainFile, pending>>

\* GitScheduler.run with its stop channel closed: the helper goroutine
\* cancels the context and the loop returns at its next wait, or at the
\* top of the loop once the scheduler is stopped.
LoopTerminates ==
  /\ ~panicked
  /\ \E l \in AliveLoops :
       /\ ChClosed(l)
       /\ EndLoop(l)
  /\ UNCHANGED loopFrame
  /\ UNCHANGED <<pending, work>>

\* Local modifications appear in the working copy, or are committed and
\* pushed (by this process's sync or by anyone else).
LocalChange ==
  /\ ~panicked
  /\ pending' = ~pending
  /\ UNCHANGED <<aside, work, schedAll, cfgVars, tpc, handlerVars, fileVars>>

\* Someone pushes a commit to the remote's default branch.
MaxCommit == 2
RemoteAdvance ==
  /\ ~panicked
  /\ remoteHead < MaxCommit
  /\ remoteHead' = remoteHead + 1
  /\ UNCHANGED <<guardVars, boot, watch, env, race, hooks, work, schedAll, cfgVars, tpc,
                 handlerVars, fileVars, pending>>

(* ------------------------------------------------------------------ *)
(* Access control of the management endpoints (Handler.Middleware)      *)
(* ------------------------------------------------------------------ *)
maxFailures == 5
\* 30 minutes; the clock `now` counts quarters of an hour.
banDuration == 2
MaxTime == 4
MaxInflight == 2

RemoteAddrs == {"10.0.0.1"}
LocalAddrs == {"127.0.0.1", "::1"}
\* What a request presents: nothing, a key that matches nothing, the
\* environment secret, the key the configured hash was made from, the local
\* password.
Keys == {"", "wrong", "env", "hash", "local"}
\* The zero time.Time is 0; the clock starts at 1.
NoAttempt == [tracked |-> FALSE, count |-> 0, blockedUntil |-> 0]
NoAnswer == [ip |-> "", res |-> "none"]
GuardCfgs == [allowRemote : BOOLEAN, envSecret : BOOLEAN,
              secretHash : BOOLEAN, localPassword : BOOLEAN]
\* Everything outside the middleware.
storageVars == <<running, stopCh, config, tokenStore, loops, panicked, lastCall,
                 cfgRO, cfgInt, tpc, hsched, hreq, resp, mainFile, sideFile,
                 watchEv, pending, remoteHead, work, boot, watch, env, race,
                 onSyncComplete, timer>>

\* allowRemote without the override of the environment secret.
allowRemote_FlagOnly == guardCfg.allowRemote

\* allowRemote after `if h.allowRemoteOverride { allowRemote = true }`,
\* where NewHandler sets allowRemoteOverride to envSecret != "".
allowRemote == guardCfg.allowRemote \/ guardCfg.envSecret
MatchesEnv(key) == guardCfg.envSecret /\ key = "env"
MatchesHash(key) == guardCfg.secretHash /\ key = "hash"
MatchesLocal(key) == guardCfg.localPassword /\ key = "local"

NumInflight == BagCardinality(inflight)
Banned(ip) ==
  /\ failedAttempts[ip].tracked
  /\ failedAttempts[ip].blockedUntil # 0
  /\ now < failedAttempts[ip].blockedUntil
Answer(ip, res) == authResp' = [ip |-> ip, res |-> res]

\* fail() that resets the count at the threshold without setting a ban.
fail_NoBan(ip) ==
  LET aip == failedAttempts[ip]
  IN /\ failedAttempts' = [failedAttempts EXCEPT ![ip] =
          [tracked |-> TRUE,
           count |-> IF aip.count + 1 >= maxFailures THEN 0 ELSE aip.count + 1,
           blockedUntil |-> aip.blockedUntil]]
     /\ verified' = [verified EXCEPT ![ip] =
          IF @ < maxFailures THEN @ + 1 ELSE @]
     /\ UNCHANGED everBanned

\* fail() that sets the ban at the threshold and leaves the count there.
fail_KeepCount(ip) ==
  LET aip == failedAttempts[ip]
  IN IF aip.count + 1 >= maxFailures
     THEN /\ failedAttempts' = [failedAttempts EXCEPT ![ip] =
                [tracked |-> TRUE, count |-> aip.count + 1,
                 blockedUntil |-> now + banDuration]]
          /\ everBanned' = everBanned \cup {ip}
          /\ verified' = [verified EXCEPT ![ip] = 0]
     ELSE /\ failedAttempts' = [failedAttempts EXCEPT ![ip] =
                [tracked |-> TRUE, count |-> aip.count + 1,
                 blockedUntil |-> aip.blockedUntil]]
          /\ verified' = [verified EXCEPT ![ip] =
               IF @ < maxFailures THEN @ + 1 ELSE @]
          /\ UNCHANGED everBanned

\* The closure fail(): count the failure, and at the threshold set the ban
\* and reset the count.
fail(ip) ==
  LET aip == failedAttempts[ip]
  IN IF aip.count + 1 >= maxFailures
     THEN /\ failedAttempts' = [failedAttempts EXCEPT ![ip] =
                [tracked |-> TRUE, count |-> 0, blockedUntil |-> now + banDuration]]
          /\ everBanned' = everBanned \cup {ip}
          /\ verified' = [verified EXCEPT ![ip] = 0]
     ELSE /\ failedAttempts' = [failedAttempts EXCEPT ![ip] =
                [tracked |-> TRUE, count |-> aip.count + 1,
                 blockedUntil |-> aip.blockedUntil]]
          /\ verified' = [verified EXCEPT ![ip] =
               IF @ < maxFailures THEN @ + 1 ELSE @]
          /\ UNCHANGED everBanned

\* A reset that lifts the ban but keeps the count.
resetAttempts_KeepCount(ip) ==
  /\ failedAttempts' = [failedAttempts EXCEPT ![ip] =
        IF @.tracked THEN [@ EXCEPT !.blockedUntil = 0] ELSE @]
  /\ verified' = [verified EXCEPT ![ip] = 0]
  /\ UNCHANGED everBanned

\* After a successful authentication: ai.count = 0; ai.blockedUntil = zero,
\* when the address has a record.
resetAttempts(ip) ==
  /\ failedAttempts' = [failedAttempts EXCEPT ![ip] =
        IF @.tracked THEN [@ EXCEPT !.count = 0, !.blockedUntil = 0] ELSE @]
  /\ verified' = [verified EXCEPT ![ip] = 0]
  /\ UNCHANGED everBanned

\* A request from a non-local address, up to the credential check: the ban
\* check under attemptsMu, then the remote-access and key-configured tests.
RemoteArrive(ip, key) ==
  /\ IF Banned(ip)
     THEN /\ Answer(ip, "banned")
          /\ UNCHANGED <<failedAttempts, inflight>>
     ELSE /\ failedAttempts' = [failedAttempts EXCEPT ![ip] =
                IF @.tracked /\ @.blockedUntil # 0
                THEN [@ EXCEPT !.count = 0, !.blockedUntil = 0] ELSE @]
          /\ IF ~allowRemote
             THEN Answer(ip, "remote_disabled") /\ UNCHANGED inflight
             ELSE IF ~guardCfg.secretHash /\ ~guardCfg.envSecret
             THEN Answer(ip, "key_not_set") /\ UNCHANGED inflight
             ELSE /\ NumInflight < MaxInflight
                  /\ inflight' = inflight (+) SetToBag({[ip |-> ip, key |-> key]})
                  /\ UNCHANGED authResp
  /\ UNCHANGED <<now, guardCfg, everBanned, verified, storageVars>>

\* The rest of that request: the credential check and its bookkeeping.
RemoteFinish(r) ==
  /\ BagIn(r, inflight)
  /\ inflight' = inflight (-) SetToBag({r})
  /\ IF r.key = ""
     THEN fail(r.ip) /\ Answer(r.ip, "missing_key")
     ELSE IF MatchesEnv(r.key)
     THEN resetAttempts(r.ip) /\ Answer(r.ip, "ok")
     ELSE IF ~MatchesHash(r.key)
     THEN fail(r.ip) /\ Answer(r.ip, "invalid_key")
     ELSE resetAttempts(r.ip) /\ Answer(r.ip, "ok")
  /\ UNCHANGED <<now, guardCfg, storageVars>>

\* A request from a loopback address.
LocalRequest(ip, key) ==
  /\ IF ~guardCfg.secretHash /\ ~guardCfg.envSecret
     THEN Answer(ip, "key_not_set")
     ELSE IF key = ""
     THEN Answer(ip, "missing_key")
     ELSE IF MatchesLocal(key) \/ MatchesEnv(key)
     THEN Answer(ip, "ok")
     ELSE IF ~MatchesHash(key)
     THEN Answer(ip, "invalid_key")
     ELSE Answer(ip, "ok")
  /\ UNCHANGED <<failedAttempts, now, inflight, guardCfg, everBanned, verified,
                 storageVars>>

\* Time passes.
Tick ==
  /\ now < MaxTime
  /\ now' = now + 1
  /\ UNCHANGED <<failedAttempts, inflight, authResp, guardCfg, everBanned,
                 verified, storageVars>>

\* The middleware before any request, for a given configuration.
GuardInit(cfgs) ==
  /\ failedAttempts = [a \in RemoteAddrs |-> NoAttempt]
  /\ now = 1
  /\ inflight = EmptyBag
  /\ authResp = NoAnswer
  /\ guardCfg \in cfgs
  /\ everBanned = {}
  /\ verified = [a \in RemoteAddrs |-> 0]

(* ------------------------------------------------------------------ *)
(* The side file's two library functions, called at application startup *)
(* ------------------------------------------------------------------ *)
\* Values a caller may pass as syncIntervalMinutes (an int).
PersistInts == (0 - 1)..MaxInterval
Errs == {"none", "read", "parse", "write"}
NoBoot == [pc |-> "idle", ro |-> FALSE, int |-> 0, err |-> "none"]

\* The repository and the startup caller before anything ran.
AsideInit ==
  /\ remoteHead = 0
  /\ work = 0
  /\ boot = NoBoot
  /\ watch = WatchOn
  /\ env = NoEnv
  /\ race = NoRace
  /\ onSyncComplete = FALSE
  /\ timer = NoTimer

\* config.PersistReadOnlyState(readOnly, syncIntervalMinutes, path): the
\* content of the file after the call.  A missing file is read as
\* {"read_only": false}; a file that does not unmarshal is left alone; both
\* fields are set and marshalled (omitempty drops a zero interval, which
\* SideDoc(ro, 0) stands for); a failed write leaves the file as it was.
PersistReadOnlyState_KeepInterval(file, readOnly, syncIntervalMinutes, writeOk) ==
  IF file.st = "malformed" THEN file
  ELSE IF ~writeOk THEN file
  ELSE SideDoc(readOnly, file.int)

PersistReadOnlyState(file, readOnly, syncIntervalMinutes, writeOk) ==
  IF file.st = "malformed" THEN file
  ELSE IF ~writeOk THEN file
  ELSE SideDoc(readOnly, syncIntervalMinutes)

\* ... and the error it returns.
PersistReadOnlyStateErr(file, writeOk) ==
  IF file.st = "malformed" THEN "parse"
  ELSE IF ~writeOk THEN "write"
  ELSE "none"

\* The error LoadReadOnlyStorageConfig returns: nil for a missing file and
\* for a document, a parse error for anything else it could read.
LoadReadOnlyStorageConfigErr(file) ==
  IF file.st = "malformed" THEN "parse" ELSE "none"

\* A caller persists (readOnly, syncIntervalMinutes) to the side file.
BootPersist(readOnly, syncIntervalMinutes) ==
  /\ \E writeOk \in BOOLEAN :
       /\ sideFile' = PersistReadOnlyState(sideFile, readOnly,
                                           syncIntervalMinutes, writeOk)
       /\ boot' = [pc |-> "persisted", ro |-> readOnly,
                   int |-> syncIntervalMinutes,
                   err |-> PersistReadOnlyStateErr(sideFile, writeOk)]
  /\ UNCHANGED <<guardVars, remoteHead, watch, env, race, hooks, work, schedAll, cfgVars, tpc,
                 handlerVars, mainFile, watchEv, pending>>

\* A caller loads the side file into the configuration object.
BootLoad ==
  /\ LoadReadOnlyStorageConfig(BootCfg)
  /\ boot' = [boot EXCEPT !.pc = "loaded",
                          !.err = LoadReadOnlyStorageConfigErr(sideFile)]
  /\ UNCHANGED <<guardVars, remoteHead, watch, env, race, hooks, work, schedAll, tpc,
                 handlerVars, fileVars, pending>>

(* ------------------------------------------------------------------ *)
(* Specification of the side file's functions: every file content and   *)
(* every in-memory state, then any sequence of persist and load calls   *)
(* ------------------------------------------------------------------ *)
LoadInit ==
  /\ running = FALSE
  /\ stopCh = "open"
  /\ config = BootCfg
  /\ tokenStore = TRUE
  /\ loops = EmptyBag
  /\ panicked = FALSE
  /\ lastCall = "none"
  /\ \E b \in BOOLEAN : cfgRO = [c \in CfgRefs |-> b]
  /\ \E n \in Intervals : cfgInt = [c \in CfgRefs |-> n]
  /\ tpc = [t \in Threads |-> "idle"]
  /\ hsched = FALSE
  /\ hreq = NoReq
  /\ resp = "none"
  /\ mainFile = [ro |-> FALSE, int |-> 1]
  /\ sideFile \in SideFiles
  /\ watchEv = FALSE
  /\ pending = FALSE
  /\ AsideInit
  /\ GuardInit({[allowRemote |-> FALSE, envSecret |-> FALSE,
                 secretHash |-> TRUE, localPassword |-> FALSE]})

LoadNext ==
  \/ \E readOnly \in BOOLEAN, syncIntervalMinutes \in PersistInts :
       BootPersist(readOnly, syncIntervalMinutes)
  \/ BootLoad

LoadSpec == LoadInit /\ [][LoadNext]_vars

(* ------------------------------------------------------------------ *)
(* Configuration from the environment: os.Setenv / os.Unsetenv and      *)
(* LoadConfigOptional("", true)                                         *)
(* ------------------------------------------------------------------ *)
defaultSyncIntervalMinutes == 5

Digit(ch) == CASE ch = "0" -> 0 [] ch = "1" -> 1 [] OTHER -> 0 - 1

\* strconv.Atoi on a string of the characters above: the value, or -1 for
\* an error (an empty string, or a character that is no digit).
RECURSIVE AtoiFrom(_, _)
AtoiFrom(str, acc) ==
  IF str = <<>> THEN acc
  ELSE IF Digit(Head(str)) < 0 THEN 0 - 1
  ELSE AtoiFrom(Tail(str), acc * 10 + Digit(Head(str)))
Atoi(str) == IF str = <<>> THEN 0 - 1 ELSE AtoiFrom(str, 0)

\* The flag a READ_ONLY value decides: unset and "true" give true, "false"
\* gives false; nothing fixes what another word gives.
envReadOnly(v) ==
  IF ~v.set \/ v.val = <<"true">> THEN {TRUE}
  ELSE IF v.val = <<"false">> THEN {FALSE}
  ELSE BOOLEAN

\* An interval that takes a zero for a value.
envSyncInterval_ZeroKept(v) ==
  IF v.set /\ Atoi(v.val) >= 0 THEN Atoi(v.val) ELSE defaultSyncIntervalMinutes

\* The interval a SYNC_INTERVAL_MINUTES value decides: its number when it
\* parses to a positive one, the default otherwise.
envSyncInterval(v) ==
  IF v.set /\ Atoi(v.val) > 0 THEN Atoi(v.val) ELSE defaultSyncIntervalMinutes

envFrame == <<guardVars, remoteHead, boot, watch, race, hooks, work, schedAll, cfgVars,
              tpc, handlerVars, fileVars, pending>>

Setenv(name, v) ==
  /\ env[name] # EnvVal(v)
  /\ env' = [env EXCEPT ![name] = EnvVal(v)]
  /\ UNCHANGED envFrame

Unsetenv(name) ==
  /\ env[name].set
  /\ env' = [env EXCEPT ![name] = Unset]
  /\ UNCHANGED envFrame

LoadConfigOptional ==
  /\ \E ro \in envReadOnly(env.readOnly) :
       env' = [env EXCEPT !.cfg = [st |-> "ok", ro |-> ro,
                                   int |-> envSyncInterval(env.syncInterval)]]
  /\ UNCHANGED envFrame

EnvInit == LoadInit /\ sideFile = SideAbsent

EnvNext ==
  \/ \E w \in EnvWords : Setenv("readOnly", w)
  \/ \E w \in EnvStrings : Setenv("syncInterval", w)
  \/ Unsetenv("readOnly")
  \/ Unsetenv("syncInterval")
  \/ LoadConfigOptional

EnvSpec == EnvInit /\ [][EnvNext]_vars

(* ------------------------------------------------------------------ *)
(* persistBothToJSONAfterUnlock step by step: os.ReadFile, then          *)
(* os.WriteFile, which opens the file with O_TRUNC and writes at offset  *)
(* zero of its own descriptor, beside loads of the file                  *)
(* ------------------------------------------------------------------ *)
\* The length of json.MarshalIndent's output for a document: the braces,
\* the "read_only" member, and the interval member unless it is zero.
DocLen(ro, n) ==
  19 + (IF ro THEN 4 ELSE 5) + (IF n = 0 THEN 0 ELSE 29 + (IF n < 10 THEN 1 ELSE 2))

FileLen ==
  CASE sideFile.st = "ok" -> DocLen(sideFile.ro, sideFile.int)
    [] sideFile.st = "absent" -> 0
    [] OTHER -> race.flen

raceFrame == <<guardVars, remoteHead, boot, watch, env, hooks, work, schedAll,
               tpc, handlerVars, mainFile, pending>>

\* os.ReadFile and json.Unmarshal: a file that does not parse ends the
\* call; otherwise the document to write is made of the two arguments.
PersistBothRead(x, readOnly, syncIntervalMinutes) ==
  /\ race.w[x].pc = "idle"
  /\ sideFile.st # "malformed"
  /\ race' = [race EXCEPT !.w[x] = [pc |-> "open", ro |-> readOnly,
                                    int |-> syncIntervalMinutes]]
  /\ UNCHANGED <<raceFrame, cfgVars, sideFile, watchEv>>

\* os.WriteFile opens the file: it is created or cut to no content.
PersistBothOpen(x) ==
  /\ race.w[x].pc = "open"
  /\ sideFile' = SideMalformed
  /\ race' = [race EXCEPT !.w[x].pc = "write", !.flen = 0]
  /\ watchEv' = (watchEv \/ FileLen > 0 \/ sideFile.st = "absent")
  /\ UNCHANGED <<raceFrame, cfgVars>>

\* os.WriteFile writes the document at offset zero and closes: bytes that
\* another writer put beyond the document's end stay in the file.
PersistBothWrite(x) ==
  /\ race.w[x].pc = "write"
  /\ IF FileLen <= DocLen(race.w[x].ro, race.w[x].int)
     THEN /\ sideFile' = SideDoc(race.w[x].ro, race.w[x].int)
          /\ race' = [race EXCEPT !.w[x].pc = "done", !.flen = 0]
     ELSE /\ sideFile' = SideMalformed
          /\ race' = [race EXCEPT !.w[x].pc = "done"]
  /\ watchEv' = TRUE
  /\ UNCHANGED <<raceFrame, cfgVars>>

RaceInit == LoadInit /\ sideFile.st # "malformed"

RaceNext ==
  \/ \E x \in Writers, readOnly \in BOOLEAN, syncIntervalMinutes \in Intervals :
       PersistBothRead(x, readOnly, syncIntervalMinutes)
  \/ \E x \in Writers : PersistBothOpen(x)
  \/ \E x \in Writers : PersistBothWrite(x)
  \/ WatcherReload
  \/ BootLoad

RaceSpec == RaceInit /\ [][RaceNext]_vars

(* ------------------------------------------------------------------ *)
(* Specification of two management requests handled at the same time,   *)
(* each on its own goroutine, on a handler that has no scheduler: the    *)
(* update under h.mu, then, with the lock released, the main file and    *)
(* the side file.  Every write succeeds and is one step.                 *)
(* ------------------------------------------------------------------ *)
concFrame == <<guardVars, remoteHead, boot, watch, env, hooks, work, schedAll,
               tpc, handlerVars, pending>>

\* updateStorageReadOnly(readOnly) from h.mu.Lock() to h.mu.Unlock().
ConcSetReadOnly(x, readOnly) ==
  /\ race.w[x].pc = "idle"
  /\ ~hsched
  /\ SetReadOnlyStorage(hcfg, readOnly)
  /\ race' = [race EXCEPT !.w[x] = [pc |-> "ro_cfg", ro |-> readOnly,
                                    int |-> 0]]
  /\ UNCHANGED <<concFrame, cfgInt, fileVars>>

\* updateStorageSyncInterval(syncIntervalMinutes), likewise.
ConcSetSyncInterval(x, syncIntervalMinutes) ==
  /\ race.w[x].pc = "idle"
  /\ ~hsched
  /\ SetSyncIntervalMinutes(hcfg, syncIntervalMinutes)
  /\ race' = [race EXCEPT !.w[x] = [pc |-> "int_cfg", ro |-> FALSE,
                                    int |-> syncIntervalMinutes]]
  /\ UNCHANGED <<concFrame, cfgRO, fileVars>>

\* h.persistConfig(): the configuration as it is now goes to the main file.
ConcPersistConfig(x) ==
  /\ race.w[x].pc \in {"ro_cfg", "int_cfg"}
  /\ mainFile' = SaveConfigPreserveComments(hcfg)
  /\ race' = [race EXCEPT !.w[x].pc =
                 IF race.w[x].pc = "ro_cfg" THEN "ro_snap" ELSE "int_snap"]
  /\ UNCHANGED <<concFrame, cfgVars, sideFile, watchEv>>

\* persistReadOnlyToJSONAfterUnlock / persistSyncIntervalToJSONAfterUnlock:
\* the other field is read from h.cfg under h.mu.RLock().
ConcSnapshot(x) ==
  /\ race.w[x].pc \in {"ro_snap", "int_snap"}
  /\ race' = IF race.w[x].pc = "ro_snap"
             THEN [race EXCEPT !.w[x].pc = "both",
                               !.w[x].int = cfgInt[hcfg]]
             ELSE [race EXCEPT !.w[x].pc = "both",
                               !.w[x].ro = cfgRO[hcfg]]
  /\ UNCHANGED <<concFrame, cfgVars, fileVars>>

\* persistBothToJSONAfterUnlock with the request's value and the snapshot;
\* the handler then answers 200.
ConcPersistBoth(x) ==
  /\ race.w[x].pc = "both"
  /\ sideFile' = persistBothToJSONAfterUnlock(sideFile, race.w[x].ro,
                                               race.w[x].int, TRUE)
  /\ watchEv' = (watchEv \/ sideFile.st # "malformed")
  /\ race' = [race EXCEPT !.w[x].pc = "done"]
  /\ UNCHANGED <<concFrame, cfgVars, mainFile>>

ConcInit == LoadInit /\ sideFile = SideAbsent /\ cfgInt[BootCfg] >= 1

ConcNext ==
  \/ \E x \in Writers, readOnly \in BOOLEAN : ConcSetReadOnly(x, readOnly)
  \/ \E x \in Writers, n \in 1..MaxInterval : ConcSetSyncInterval(x, n)
  \/ \E x \in Writers : ConcPersistConfig(x)
  \/ \E x \in Writers : ConcSnapshot(x)
  \/ \E x \in Writers : ConcPersistBoth(x)
  \/ WatcherReload

ConcSpec == ConcInit /\ [][ConcNext]_vars

(* ------------------------------------------------------------------ *)
(* The interval timer of run: time.Duration(n) * time.Minute in 64-bit   *)
(* two's-complement arithmetic, numbers as eight bytes, lowest first     *)
(* ------------------------------------------------------------------ *)
\* time.Minute = 60,000,000,000 ns, and the 60 minutes of the default.
Minute == <<0, 88, 71, 248, 13>>
Hour == <<0, 160, 184, 48, 70, 3, 0, 0>>
Zero64 == <<0, 0, 0, 0, 0, 0, 0, 0>>

\* The bytes of a number that is not negative.
RECURSIVE Bytes(_, _)
Bytes(x, k) == IF k = 0 THEN <<>> ELSE <<x % 256>> \o Bytes(x \div 256, k - 1)

RECURSIVE SumOver(_, _, _, _)
SumOver(a, b, i, js) ==
  IF js = {} THEN 0
  ELSE LET j == CHOOSE x \in js : TRUE
       IN a[j] * b[i - j + 1] + SumOver(a, b, i, js \ {j})

\* Long multiplication, byte by byte, of a and b into k bytes: what is
\* carried beyond the k-th byte is lost.
RECURSIVE MulFrom(_, _, _, _, _)
MulFrom(a, b, i, k, carry) ==
  IF i > k THEN <<>>
  ELSE LET t == carry + SumOver(a, b, i,
                   {j \in 1..Len(a) : i - j + 1 \in 1..Len(b)})
       IN <<t % 256>> \o MulFrom(a, b, i + 1, k, t \div 256)
Mul(a, b, k) == MulFrom(a, b, 1, k, 0)

\* Two's-complement negation in 64 bits.
RECURSIVE NegFrom(_, _, _)
NegFrom(d, i, carry) ==
  IF i > Len(d) THEN <<>>
  ELSE LET t == (255 - d[i]) + carry
       IN <<t % 256>> \o NegFrom(d, i + 1, t \div 256)
Neg64(d) == NegFrom(d, 1, 1)

\* time.Duration(n) * time.Minute for an int n.
DurationMinutes(n) ==
  IF n >= 0 THEN Mul(Bytes(n, 4), Minute, 8)
  ELSE Neg64(Mul(Bytes(0 - n, 4), Minute, 8))

\* d <= 0 for a Duration.
NonPositive(d) == d[8] >= 128 \/ d = Zero64

\* syncInterval as run computes it before time.NewTimer.
syncInterval(n) ==
  IF NonPositive(DurationMinutes(n)) THEN Hour ELSE DurationMinutes(n)

\* Configured intervals: around zero, ordinary ones, and those near the
\* points where the product leaves the 64 bits.
TimerInputs == {0 - 1, 0, 1, 2, 5, 60, 1440, 153722867, 153722868,
                307445734, 307445735, 307445736, 614891470, 2147483647}

timerFrame == <<guardVars, remoteHead, boot, watch, env, race, onSyncComplete,
                work, schedAll, cfgVars, tpc, handlerVars, fileVars, pending>>

\* Config.SetSyncIntervalMinutes between two iterations of run.
TimerSetInterval(n) ==
  /\ timer.n # n
  /\ timer' = [timer EXCEPT !.n = n]
  /\ UNCHANGED timerFrame

\* cfg.SyncIntervalMinutes() read after the sync, the duration computed and
\* the timer created.
ArmTimer ==
  /\ timer' = [timer EXCEPT !.d = syncInterval(timer.n)]
  /\ UNCHANGED timerFrame

TimerInit == LoadInit /\ sideFile = SideAbsent

TimerNext ==
  \/ \E n \in TimerInputs : TimerSetInterval(n)
  \/ ArmTimer

TimerSpec == TimerInit /\ [][TimerNext]_vars

(* ------------------------------------------------------------------ *)
(* Specification of the side-file watcher: the file is rewritten,       *)
(* removed or broken from outside, other events arrive, and the context *)
(* is cancelled at any moment                                           *)
(* ------------------------------------------------------------------ *)
\* The watcher is started on a directory that holds no side file yet.
WatchInit == LoadInit /\ sideFile = SideAbsent

WatchNext ==
  \/ SideFileEdit
  \/ WatcherReload
  \/ OtherEvent
  \/ WatcherIgnore
  \/ WatcherCancel
  \/ WatcherExit

WatchSpec == WatchInit /\ [][WatchNext]_vars

(* ------------------------------------------------------------------ *)
(* Specification of the scheduler alone: every sequence of Start, Stop  *)
(* and UpdateConfig calls, with the read-only flags changing under it   *)
(* ------------------------------------------------------------------ *)
SchedInit ==
  /\ running = FALSE
  /\ stopCh = "open"
  /\ config \in {BootCfg, NilCfg}
  /\ tokenStore \in BOOLEAN
  /\ loops = EmptyBag
  /\ panicked = FALSE
  /\ lastCall = "none"
  /\ cfgRO \in [CfgRefs -> BOOLEAN]
  /\ cfgInt = [c \in CfgRefs |-> 1]
  /\ tpc = [t \in Threads |-> "idle"]
  /\ hsched = FALSE
  /\ hreq = NoReq
  /\ resp = "none"
  /\ mainFile = [ro |-> cfgRO[BootCfg], int |-> cfgInt[BootCfg]]
  /\ sideFile = SideAbsent
  /\ watchEv = FALSE
  /\ pending = FALSE
  /\ AsideInit
  /\ GuardInit({[allowRemote |-> FALSE, envSecret |-> FALSE,
                 secretHash |-> TRUE, localPassword |-> FALSE]})

LoopNext ==
  \/ \E l \in AliveLoops : CtxCancel(l)
  \/ \E l \in AliveLoops : LoopTop(l)
  \/ \E l \in AliveLoops : LoopCheck(l)
  \/ \E l \in AliveLoops : SyncBegin(l)
  \/ \E l \in AliveLoops : SyncEnd(l)
  \/ \E l \in AliveLoops : TimerFire(l)
  \/ \E l \in AliveLoops : IdleTick(l)
  \/ \E l \in AliveLoops : LoopExit(l)

SchedNext ==
  \/ CallStart
  \/ CallStop
  \/ CallUpdateConfig
  \/ \E t \in Threads : UpdateConfigDispatch(t)
  \/ \E t \in Threads : StartGo(t)
  \/ LoopNext
  \/ ExternalSetReadOnly

SchedSpec == SchedInit /\ [][SchedNext]_vars

(* ------------------------------------------------------------------ *)
(* Specification of the sync loop against a repository: the scheduler   *)
(* is started and stopped from main, with any sync interval, while the  *)
(* remote advances and the working copy is modified                     *)
(* ------------------------------------------------------------------ *)
RunInit ==
  /\ running = FALSE
  /\ stopCh = "open"
  /\ config = BootCfg
  /\ tokenStore = TRUE
  /\ loops = EmptyBag
  /\ panicked = FALSE
  /\ lastCall = "none"
  /\ \E b \in BOOLEAN : cfgRO = [c \in CfgRefs |-> b]
  /\ \E n \in Intervals : cfgInt = [c \in CfgRefs |-> n]
  /\ tpc = [t \in Threads |-> "idle"]
  /\ hsched = FALSE
  /\ hreq = NoReq
  /\ resp = "none"
  /\ mainFile = [ro |-> cfgRO[BootCfg], int |-> cfgInt[BootCfg]]
  /\ sideFile = SideAbsent
  /\ watchEv = FALSE
  /\ pending \in BOOLEAN
  /\ AsideInit
  /\ GuardInit({[allowRemote |-> FALSE, envSecret |-> FALSE,
                 secretHash |-> TRUE, localPassword |-> FALSE]})

RunNext ==
  \/ CallStart
  \/ CallStop
  \/ StartGo("main")
  \/ LoopNext
  \/ ExternalSetReadOnly
  \/ RemoteAdvance
  \/ LocalChange

RunSpec == RunInit /\ [][RunNext]_vars

(* ------------------------------------------------------------------ *)
(* Specification of the loops' termination: main starts and stops the   *)
(* scheduler and the flags change under it.  The Go runtime runs every  *)
(* goroutine that can run, so the steps of the loops whose stop signal  *)
(* is closed, and of their helpers, are weakly fair as a group; a sync   *)
(* in progress returns.  A select entered with the context cancelled    *)
(* finds the timer (a minute or more) and the one-second tick not yet   *)
(* due, and among cases that are ready it chooses at random: the        *)
(* ctx.Done case is strongly fair.  Calls from main are not fair.       *)
(* ------------------------------------------------------------------ *)
TermInit == RunInit /\ cfgInt[BootCfg] = 1 /\ ~pending

TermNext ==
  \/ CallStart
  \/ CallStop
  \/ StartGo("main")
  \/ LoopNext
  \/ ExternalSetReadOnly

TermFair ==
  /\ WF_vars(\E l \in AliveLoops : CtxCancel(l))
  /\ WF_vars(\E l \in AliveLoops : ChClosed(l) /\ LoopTop(l))
  /\ WF_vars(\E l \in AliveLoops : ChClosed(l) /\ LoopCheck(l))
  /\ WF_vars(\E l \in AliveLoops : ChClosed(l) /\ SyncBegin(l))
  /\ WF_vars(\E l \in AliveLoops : ChClosed(l) /\ SyncEnd(l))
  /\ SF_vars(\E l \in AliveLoops : LoopExit(l))

TermSpec == TermInit /\ [][TermNext]_vars /\ TermFair

(* ------------------------------------------------------------------ *)
(* Specification of the loop with a completion callback: the callback   *)
(* is registered and removed at any moment and, once invoked, may stop  *)
(* the scheduler that invoked it                                        *)
(* ------------------------------------------------------------------ *)
CbInit == RunInit /\ cfgInt[BootCfg] = 1 /\ ~pending

CbNext ==
  \/ MuFree /\ CallStart
  \/ MuFree /\ CallStop
  \/ StartGo("main")
  \/ LoopNext
  \/ ExternalSetReadOnly
  \/ \E b \in BOOLEAN : SetOnSyncComplete(b)
  \/ \E l \in AliveLoops : CallbackStop(l)
  \/ \E l \in AliveLoops : CallbackUpdateConfig(l)
  \/ MuFree /\ UpdateConfigDispatch("loop")
  \/ \E l \in AliveLoops : CallbackReturn(l)

CbSpec == CbInit /\ [][CbNext]_vars

(* ------------------------------------------------------------------ *)
(* Specification of the management plane: requests, the side-file       *)
(* watcher, the repository and the scheduler the requests drive         *)
(* ------------------------------------------------------------------ *)
Init ==
  /\ running = FALSE
  /\ stopCh = "open"
  /\ config = BootCfg
  /\ tokenStore = TRUE
  /\ loops = EmptyBag
  /\ panicked = FALSE
  /\ lastCall = "none"
  /\ cfgRO = [c \in CfgRefs |-> FALSE]
  /\ cfgInt = [c \in CfgRefs |-> 1]
  /\ tpc = [t \in Threads |-> "idle"]
  /\ hsched = FALSE
  /\ hreq = NoReq
  /\ resp = "none"
  /\ mainFile = [ro |-> FALSE, int |-> 1]
  /\ sideFile = SideAbsent
  /\ watchEv = FALSE
  /\ pending = FALSE
  /\ AsideInit
  /\ GuardInit({[allowRemote |-> FALSE, envSecret |-> FALSE,
                 secretHash |-> TRUE, localPassword |-> FALSE]})

Next ==
  \/ PutStorageReadOnly
  \/ PutStorageSyncInterval
  \/ ensureCanEnableReadOnly
  \/ HandlerSet
  \/ HandlerUpdateConfig
  \/ UpdateConfigDispatch("api")
  \/ StartGo("api")
  \/ HandlerPersistConfig
  \/ HandlerPersistSide
  \/ SetScheduler
  \/ WatcherReload
  \/ SideFileEdit
  \/ LocalChange
  \/ LoopTerminates

Spec == Init /\ [][Next]_vars

(* ------------------------------------------------------------------ *)
(* Specification of the scheduler beside the side-file watcher: the     *)
(* process starts with no side file and read-only off, main starts and  *)
(* stops the scheduler, the file is edited from outside and the watcher *)
(* reloads it.  The Go runtime schedules every goroutine that can run   *)
(* and fires every timer: the watcher's and the loops' steps are weakly *)
(* fair; calls from main and edits of the file are not.                 *)
(* ------------------------------------------------------------------ *)
ReloadInit == Init

ReloadNext ==
  \/ CallStart
  \/ CallStop
  \/ StartGo("main")
  \/ LoopNext
  \/ SideFileEdit
  \/ WatcherReload

ReloadFair ==
  /\ WF_vars(StartGo("main"))
  /\ WF_vars(WatcherReload)
  /\ WF_vars(\E l \in AliveLoops : CtxCancel(l))
  /\ WF_vars(\E l \in AliveLoops : LoopTop(l))
  /\ WF_vars(\E l \in AliveLoops : LoopCheck(l))
  /\ WF_vars(\E l \in AliveLoops : SyncBegin(l))
  /\ WF_vars(\E l \in AliveLoops : SyncEnd(l))
  /\ WF_vars(\E l \in AliveLoops : TimerFire(l))
  /\ WF_vars(\E l \in AliveLoops : IdleTick(l))
  /\ WF_vars(\E l \in AliveLoops : LoopExit(l))

ReloadSpec == ReloadInit /\ [][ReloadNext]_vars /\ ReloadFair

(* ------------------------------------------------------------------ *)
(* Specification of the access control: requests from local and         *)
(* non-local addresses, handled concurrently, and the clock             *)
(* ------------------------------------------------------------------ *)
AuthInit ==
  /\ running = FALSE
  /\ stopCh = "open"
  /\ config = BootCfg
  /\ tokenStore = TRUE
  /\ loops = EmptyBag
  /\ panicked = FALSE
  /\ lastCall = "none"
  /\ cfgRO = [c \in CfgRefs |-> FALSE]
  /\ cfgInt = [c \in CfgRefs |-> 1]
  /\ tpc = [t \in Threads |-> "idle"]
  /\ hsched = FALSE
  /\ hreq = NoReq
  /\ resp = "none"
  /\ mainFile = [ro |-> FALSE, int |-> 1]
  /\ sideFile = SideAbsent
  /\ watchEv = FALSE
  /\ pending = FALSE
  /\ AsideInit
  /\ GuardInit(GuardCfgs)

AuthNext ==
  \/ \E ip \in RemoteAddrs, key \in Keys : RemoteArrive(ip, key)
  \/ \E r \in BagToSet(inflight) : RemoteFinish(r)
  \/ \E ip \in LocalAddrs, key \in Keys : LocalRequest(ip, key)
  \/ Tick

AuthSpec == AuthInit /\ [][AuthNext]_vars

TypeOK ==
  /\ running \in BOOLEAN
  /\ stopCh \in {"open", "closed"}
  /\ config \in CfgRefs \cup {NilCfg}
  /\ panicked \in BOOLEAN
  /\ NumLoops <= MaxLoops
  /\ sideFile \in SideFiles \cup
                   {SideDoc(ro, n) : ro \in BOOLEAN, n \in PersistInts}
  /\ mainFile \in MainDocs
  /\ remoteHead \in 0..MaxCommit
  /\ work \in 0..remoteHead
  /\ watch \in [pc : {"select", "done"}, ctx : BOOLEAN, handle : BOOLEAN,
                 other : BOOLEAN]
  /\ race.w \in [Writers -> [pc : {"idle", "open", "write", "done", "ro_cfg",
                                    "int_cfg", "ro_snap", "int_snap", "both"},
                              ro : BOOLEAN, int : Intervals]]
  /\ race.flen \in Nat
  /\ onSyncComplete \in BOOLEAN
  /\ timer.n \in Int
  /\ timer.d \in Seq(0..255)
  /\ env.readOnly \in {Unset} \cup {EnvVal(w) : w \in EnvWords}
  /\ env.syncInterval \in {Unset} \cup {EnvVal(w) : w \in EnvStrings}
  /\ env.cfg.st \in {"none", "ok"}
  /\ env.cfg.ro \in BOOLEAN
  /\ env.cfg.int \in Nat
  /\ boot \in [pc : {"idle", "persisted", "loaded"}, ro : BOOLEAN,
                int : PersistInts, err : Errs]

(* ------------------------------------------------------------------ *)
(* Properties of the scheduler                                          *)
(* ------------------------------------------------------------------ *)
\* Goroutine t executes Stop(): called directly, or by UpdateConfig.
StopStep(t) ==
  /\ ~panicked
  /\ \/ t = "main" /\ tpc[t] = "idle"
     \/ tpc[t] = "uc_stop"
  /\ StopBody(t)

\* Goroutine t executes the locked part of UpdateConfig(c).
UpdateConfigStep(t, c) ==
  /\ ~panicked
  /\ \/ t = "main" /\ tpc[t] = "idle"
     \/ t = "api" /\ tpc[t] = "h_uc"
  /\ UpdateConfigLocked(t, c)

\* Loop goroutines that are inside pullChanges (fetch + hard reset).
Syncing == {l \in AliveLoops : l.pc = "pull"}
NumSyncing == BagCardinality([l \in Syncing |-> loops[l]])

\* C1: over every sequence of Start, Stop and UpdateConfig calls no call
\* closes a stop signal that is already closed, so no call panics.
C1_NoDoubleClose == ~panicked

\* C2: whenever the phase is Running, read-only mode is enabled and no Start
\* is still about to launch its goroutine, a loop instance is alive.
C2_RunningHasLoop ==
  (/\ running
   /\ config # NilCfg
   /\ cfgRO[config]
   /\ \A t \in Threads : tpc[t] # "start_go")
  => NumLoops >= 1

\* C3: no two loop instances run concurrently: the old instance performs no
\* further sync once a new one is launched, so at no time are two instances
\* inside a sync.
C3_NoTwoLoopsSyncing == NumSyncing <= 1

\* C4: UpdateConfig(cfg) with a non-nil cfg on a scheduler whose repository
\* collaborator is set ends with the phase matching cfg's read-only flag:
\* the Start it dispatches ends Running, the Stop it dispatches ends Stopped,
\* and neither panics.
C4_UpdateConfigEndsMatching ==
  [][\A t \in Threads :
       (tokenStore /\ UpdateConfigDispatch(t)) =>
          /\ ~panicked'
          /\ running' = (tpc[t] = "uc_start")]_vars

\* C5: UpdateConfig(cfg) with cfg's read-only flag equal to the current phase
\* only replaces the held configuration reference: the phase is unchanged,
\* the stop signal is neither closed nor replaced, no loop goroutine is
\* launched or altered, and the call returns without dispatching Start or
\* Stop.
C5_MatchingUpdateConfigIsFrame ==
  [][\A t \in Threads, c \in CfgRefs :
       (UpdateConfigStep(t, c) /\ cfgRO[c] = running) =>
          /\ config' = c
          /\ running' = running
          /\ stopCh' = stopCh
          /\ loops' = loops
          /\ panicked' = panicked
          /\ tpc'[t] = Ret(t)]_vars

\* C5 witness: a matching UpdateConfig has returned on a Running scheduler
\* whose loop goroutine is alive.
C5_Witness ==
  /\ lastCall = "uc_same"
  /\ running
  /\ NumLoops >= 1
  /\ tpc["main"] = "idle"

\* C6: Stop on a Stopped scheduler is a no-op: no panic, no close of the
\* stop signal, no phase change, whether or not a Start or a Stop preceded.
C6_StopWhenStoppedIsNoop ==
  [][\A t \in Threads :
       (StopStep(t) /\ ~running) =>
          /\ ~panicked'
          /\ stopCh' = stopCh
          /\ running' = running
          /\ loops' = loops
          /\ config' = config]_vars

\* C6 witness: a Stop has returned as a no-op after an earlier Stop closed
\* the stop signal.
C6_Witness ==
  /\ lastCall = "stop_noop"
  /\ stopCh = "closed"
  /\ ~running

(* ------------------------------------------------------------------ *)
(* Properties of the management plane                                   *)
(* ------------------------------------------------------------------ *)
\* The handler of the current request is past the pending-changes check.
Committed == tpc["api"] \in {"h_set", "h_uc", "uc_start", "uc_stop", "start_go",
                             "h_persist", "h_side"}

\* C7: with the scheduler wired, a request to enable read-only whose check
\* reports pending local changes is answered with the conflict error and
\* read_only, the scheduler phase and both files stay as they were; when the
\* check reports none the request goes on, sets read_only to true, and the
\* only answer it can then get is success.
C7_EnableRefusedWhilePending ==
  [][
       /\ (ensureCanEnableReadOnly /\ hsched /\ resp' # "check_error") =>
          IF pending
          THEN /\ resp' = "conflict"
               /\ tpc'["api"] = "idle"
               /\ UNCHANGED <<cfgRO, running, stopCh, loops, mainFile, sideFile>>
          ELSE /\ tpc'["api"] = "h_set"
               /\ hreq' = hreq
       /\ (HandlerSet /\ hreq.kind = "ro" /\ hreq.ro) => GetStorageReadOnly'
       /\ (Committed /\ tpc'["api"] = "idle") => resp' = "ok"]_vars

C7_Witness ==
  /\ hsched
  /\ pending
  /\ resp = "conflict"
  /\ tpc["api"] = "idle"
  /\ ~GetStorageReadOnly
  /\ ~running

\* C8: read-only never goes from false to true while the working copy has
\* unsynced local changes.
C8_NeverEnabledWithPendingChanges ==
  [][(~GetStorageReadOnly /\ GetStorageReadOnly') => ~pending]_vars

\* The value a sync-interval request supplies: the primary key when the body
\* has it, otherwise the alternate key.
Supplied(body) ==
  IF ~body.valid THEN JAbsent
  ELSE IF body.primary.t # "absent" THEN body.primary ELSE body.alt

\* What C9 asks of the parser for one request body.
ParsedAsSupplied(body) ==
  LET v == Supplied(body)
      r == parseIntField(body, minSyncIntervalMinutes)
  IN IF v.t = "num" /\ v.h % 2 = 0 /\ v.h >= 2
     THEN r.found /\ r.err = "none" /\ 2 * r.val = v.h
     ELSE r.err # "none" \/ ~r.found

C10_SuccessMeansBothCopiesWritten ==
  [][(HandlerPersistSide /\ resp' = "ok") =>
        IF hreq.kind = "ro"
        THEN /\ mainFile'.ro = hreq.ro
             /\ sideFile'.st = "ok"
             /\ sideFile'.ro = hreq.ro
        ELSE /\ mainFile'.int = hreq.int
             /\ sideFile'.st = "ok"
             /\ sideFile'.int = hreq.int]_vars

\* The side file the request being answered asked for.
SideTarget ==
  SideDoc(IF hreq.kind = "ro" THEN hreq.ro ELSE cfgRO[hcfg],
          IF hreq.kind = "int" THEN hreq.int ELSE cfgInt[hcfg])

\* C11: when the write of the side file fails during an accepted read-only
\* or sync-interval request (the file is left without the requested
\* content), the answer reports the failure, and the in-memory value stays
\* as set.
C11_PersistFailureReported ==
  [][(HandlerPersistSide /\ sideFile' # SideTarget) =>
        /\ resp' # "ok"
        /\ UNCHANGED cfgVars]_vars

(* ------------------------------------------------------------------ *)
(* Properties of the access control                                     *)
(* ------------------------------------------------------------------ *)
\* The key is one of the accepted credentials.
Correct(key) ==
  \/ guardCfg.envSecret /\ key = "env"
  \/ guardCfg.secretHash /\ key = "hash"

C13_SuccessResetsRecord ==
  [][\A ip \in RemoteAddrs, key \in Keys :
       /\ (/\ RemoteArrive(ip, key)
           /\ failedAttempts[ip].blockedUntil # 0
           /\ now >= failedAttempts[ip].blockedUntil) =>
              /\ failedAttempts'[ip].count = 0
              /\ failedAttempts'[ip].blockedUntil = 0
              /\ (allowRemote /\ (guardCfg.envSecret \/ guardCfg.secretHash)) =>
                    inflight' = inflight (+) SetToBag({[ip |-> ip, key |-> key]})
       /\ (RemoteFinish([ip |-> ip, key |-> key]) /\ Correct(key)) =>
              /\ authResp' = [ip |-> ip, res |-> "ok"]
              /\ failedAttempts'[ip].count = 0
              /\ failedAttempts'[ip].blockedUntil = 0]_vars

C13_Witness ==
  \E ip \in RemoteAddrs :
    /\ ip \in everBanned
    /\ authResp = [ip |-> ip, res |-> "ok"]
    /\ failedAttempts[ip] = [tracked |-> TRUE, count |-> 0, blockedUntil |-> 0]

C15_LocalPasswordAccepted ==
  [][\A ip \in LocalAddrs :
       (LocalRequest(ip, "local") /\ guardCfg.localPassword) =>
          authResp' = [ip |-> ip, res |-> "ok"]]_vars

(* ------------------------------------------------------------------ *)
(* Properties of the side file's load and persist functions             *)
(* ------------------------------------------------------------------ *)
\* C16: LoadReadOnlyStorageConfig on a missing side file leaves the
\* read-only flag false and returns no error; on a side file that does not
\* parse it leaves the flag false and returns an error, which is only
\* reported; in both cases the sync interval stays what it was.
C16_LoadWithoutDocument ==
  [][
    /\ (BootLoad /\ sideFile.st = "absent")
          => /\ ~cfgRO'[BootCfg]
             /\ boot'.err = "none"
             /\ cfgInt' = cfgInt
    /\ (BootLoad /\ sideFile.st = "malformed")
          => /\ ~cfgRO'[BootCfg]
             /\ boot'.err = "parse"
             /\ cfgInt' = cfgInt
  ]_vars

\* Both cases happened with the flag true and a non-default interval
\* before: this one is the state after loading an unparsable file.
C16_Witness ==
  /\ boot.pc = "loaded"
  /\ boot.err = "parse"
  /\ sideFile.st = "malformed"
  /\ ~cfgRO[BootCfg]
  /\ cfgInt[BootCfg] = MaxInterval

\* C17: LoadReadOnlyStorageConfig on a valid document adopts its read_only
\* value, adopts its sync_interval_minutes when that is positive, and keeps
\* the interval it had when the field is zero or missing; no error.
C17_LoadDocument ==
  [][
    (BootLoad /\ sideFile.st = "ok")
      => /\ cfgRO'[BootCfg] = sideFile.ro
         /\ cfgInt'[BootCfg] = IF sideFile.int > 0 THEN sideFile.int
                               ELSE cfgInt[BootCfg]
         /\ boot'.err = "none"
  ]_vars

\* A document without an interval was loaded over an interval of
\* MaxInterval, and turned the flag on.
C17_Witness ==
  /\ boot.pc = "loaded"
  /\ sideFile = SideDoc(TRUE, 0)
  /\ cfgRO[BootCfg]
  /\ cfgInt[BootCfg] = MaxInterval

NumAt(p) ==
  BagCardinality([l \in {x \in AliveLoops : x.pc = p} |-> loops[l]])

C26_NoSyncAfterStop ==
  [][
    (\E l \in AliveLoops : SyncBegin(l) /\ cfgRO[config]) => running
  ]_vars

\* C27: a Stop issued while a sync is underway does not abort it.  Stop
\* touches no loop; a loop goes away only from the top of run or from one
\* of its two wait points, never from inside sync; a sync underway ends
\* only by returning to run, which arms the timer, and with the stop signal
\* closed it still resets the working copy; and a loop at the timer wait
\* whose context is cancelled can return.
C27_StopDoesNotAbortSync ==
  /\ [](\A l \in AliveLoops :
          (l.pc = "wait" /\ l.ctxDone /\ ~panicked) => ENABLED LoopExit(l))
  /\ [][
       /\ CallStop => loops' = loops
       /\ NumLoops' < NumLoops
            => \A p \in {"check", "sync", "pull"} : NumAt(p)' = NumAt(p)
       /\ NumAt("pull")' < NumAt("pull")
            => NumAt("wait")' = NumAt("wait") + 1
       /\ \A l \in AliveLoops :
            (SyncEndWith(l, TRUE) /\ ChClosed(l))
              => /\ work' = remoteHead
                 /\ ~pending'
     ]_vars

\* The scheduler was stopped and the context cancelled while the only loop
\* is inside the repository work of sync.
C27_Witness ==
  /\ ~running
  /\ stopCh = "closed"
  /\ NumLoops = 1
  /\ \E l \in AliveLoops : l.pc = "pull" /\ l.ctxDone

\* C28: a sync that fails ends neither the run loop nor the process.  The
\* loop that got the error is at the timer wait, in the state a successful
\* sync would have left it in but for the error it logs; no loop is gone
\* and nothing panicked; and a loop comes to a new sync attempt only
\* through the check at the top of run, which a waiting loop reaches only
\* when its timer expires (a new activation starts a new loop at the top).
C28_FailedSyncWaitsForTimer ==
  [][
    /\ \A l \in AliveLoops :
         SyncEndWith(l, FALSE)
           => /\ loops' = (loops (-) SetToBag({l})) (+)
                   SetToBag({[l EXCEPT !.pc = "wait", !.cfg = NilCfg,
                                       !.syncErr = TRUE]})
              /\ NumLoops' = NumLoops
              /\ ~panicked'
              /\ UNCHANGED <<running, work, pending>>
    /\ NumAt("sync")' > NumAt("sync") => \E l \in AliveLoops : LoopCheck(l)
    /\ NumAt("check")' > NumAt("check") => \E l \in AliveLoops : LoopTop(l)
    /\ NumAt("wait")' < NumAt("wait")
         => \E l \in AliveLoops : TimerFire(l) \/ LoopExit(l)
  ]_vars

\* The only loop waits on its timer after a sync that failed: the remote
\* is ahead of the working copy and the local changes are still there.
C28_Witness ==
  /\ running
  /\ ~panicked
  /\ NumLoops = 1
  /\ \E l \in AliveLoops : l.pc = "wait" /\ l.syncErr
  /\ pending
  /\ work < remoteHead

(* ------------------------------------------------------------------ *)
(* Properties of the access control under concurrent requests           *)
(* ------------------------------------------------------------------ *)
\* C30: with requests from one non-local address handled concurrently, at
\* most maxFailures wrong credentials are verified for it between two
\* consecutive ban starts: whenever a wrong credential of the address is
\* verified, fewer than maxFailures have been verified since its last ban
\* start (counting afresh, in the statement's favour, after a successful
\* authentication too).
C30_AtMostFiveVerifiedPerBan ==
  [][
    \A ip \in RemoteAddrs, key \in Keys :
      (RemoteFinish([ip |-> ip, key |-> key]) /\ ~Correct(key))
        => verified[ip] < maxFailures
  ]_vars

(* ------------------------------------------------------------------ *)
(* Properties of the side file's content                                *)
(* ------------------------------------------------------------------ *)
\* C24: the side file never holds a non-positive sync_interval_minutes:
\* whenever it is a document, the field is absent (which SideDoc's 0
\* stands for, a zero being dropped by omitempty) or a positive number.
C24_SideFileIntervalNotNegative ==
  sideFile.st = "ok" => sideFile.int >= 0

C21_WatcherLoop ==
  /\ []((watch.pc = "select" /\ watchEv /\ ~panicked) => ENABLED WatcherReload)
  /\ []((watch.pc = "select") = watch.handle)
  /\ [][
       /\ WatcherReload
            => /\ watch' = watch
               /\ ~watchEv'
               /\ cfgRO'[BootCfg] = (sideFile.st = "ok" /\ sideFile.ro)
               /\ cfgInt'[BootCfg] =
                    IF sideFile.st = "ok" /\ sideFile.int > 0
                    THEN sideFile.int ELSE cfgInt[BootCfg]
       /\ (watch.pc = "select" /\ watch'.pc = "done")
            => (watch.ctx /\ ~watch'.handle)
       /\ WatcherIgnore => UNCHANGED <<cfgVars, fileVars>>
     ]_vars

\* The watcher handled the event of a file that does not parse (the flag
\* was set to false, no event is left) and is still in its loop with the
\* handle open.
C21_Witness ==
  /\ sideFile.st = "malformed"
  /\ ~watchEv
  /\ ~cfgRO[BootCfg]
  /\ watch.pc = "select"
  /\ watch.handle
  /\ ~watch.ctx

C23_ConcurrentPersistSafe ==
  /\ []((/\ \A x \in Writers : race.w[x].pc \in {"idle", "done"}
         /\ \E x \in Writers : race.w[x].pc = "done")
          => \E x \in Writers :
               /\ race.w[x].pc = "done"
               /\ sideFile = SideDoc(race.w[x].ro, race.w[x].int))
  /\ [][(WatcherReload \/ BootLoad) => sideFile.st # "malformed"]_vars

(* ------------------------------------------------------------------ *)
(* Properties of the scheduler's reaction to a reloaded side file       *)
(* ------------------------------------------------------------------ *)
\* C22: with no UpdateConfig call at all, once a reload by the watcher has
\* turned read-only on (nothing else turns it on here), a sync follows,
\* unless a later reload turns it off first; and while read-only is off no
\* loop begins a sync: a reload that turns it off is followed by no sync
\* other than one already in progress.
C22_ReloadReachesScheduler ==
  /\ (cfgRO[BootCfg] ~> ((\E l \in AliveLoops : l.pc = "pull") \/ ~cfgRO[BootCfg]))
  /\ [][~cfgRO[BootCfg] => NumAt("pull")' <= NumAt("pull")]_vars


\* C39: the failure count of every tracked address is between 0 and 4; a
\* step raises it only as the credential check of a non-local request that
\* fails, and then by one; the failure that would make it 5 sets the ban
\* and leaves it at 0; and a request from a loopback address leaves every
\* attempt record as it is.
C39_CountBetweenZeroAndFour ==
  /\ [](\A ip \in RemoteAddrs :
          /\ failedAttempts[ip].count \in 0..(maxFailures - 1)
          /\ ~failedAttempts[ip].tracked => failedAttempts[ip] = NoAttempt)
  /\ [][ \A ip \in RemoteAddrs :
           /\ failedAttempts'[ip].count > failedAttempts[ip].count
                => /\ failedAttempts'[ip].count = failedAttempts[ip].count + 1
                   /\ \E key \in Keys :
                        /\ RemoteFinish([ip |-> ip, key |-> key])
                        /\ ~Correct(key)
           /\ (/\ failedAttempts[ip].count = maxFailures - 1
               /\ \E key \in Keys :
                    RemoteFinish([ip |-> ip, key |-> key]) /\ ~Correct(key))
                => /\ failedAttempts'[ip].count = 0
                   /\ failedAttempts'[ip].blockedUntil = now + banDuration
     ]_vars
  /\ [][ (\E ip \in LocalAddrs, key \in Keys : LocalRequest(ip, key))
           => UNCHANGED failedAttempts ]_vars

\* The fifth failure has just set the ban: the address is banned and its
\* count is back at 0.
C39_Witness ==
  \E ip \in RemoteAddrs :
    /\ Banned(ip)
    /\ failedAttempts[ip].count = 0
    /\ failedAttempts[ip].blockedUntil = now + banDuration
    /\ authResp.res \in {"invalid_key", "missing_key"}

\* C31: while an address is banned no step clears its ban or moves its
\* expiry earlier; in particular the successful authentication of a request
\* that passed the ban check before the ban was set leaves the ban alone.
C31_BanNeverCleared ==
  [][ \A ip \in RemoteAddrs :
        Banned(ip) =>
          failedAttempts'[ip].blockedUntil >= failedAttempts[ip].blockedUntil
    ]_vars


(* ------------------------------------------------------------------ *)
(* Properties of a side file that does not parse                        *)
(* ------------------------------------------------------------------ *)
\* C40: given a side file that does not parse, PersistReadOnlyState returns
\* an error and the file is as before, whatever the arguments; the
\* handlers' write of the side file leaves such a file as it is; and a file
\* that does not parse changes only by being rewritten or removed from
\* outside.
C40_UnparsableFileIsKept ==
  /\ \A readOnly \in BOOLEAN, n \in PersistInts, writeOk \in BOOLEAN :
       /\ PersistReadOnlyState(SideMalformed, readOnly, n, writeOk) = SideMalformed
       /\ PersistReadOnlyStateErr(SideMalformed, writeOk) = "parse"
  /\ [][ sideFile.st = "malformed" =>
           /\ HandlerPersistSide => sideFile' = sideFile
           /\ sideFile' # sideFile => SideFileEdit
     ]_vars

\* The file does not parse and the watcher has seen it (read-only went
\* off); afterwards a request turned read-only on, was answered, and the
\* file is still the one that does not parse.
C40_Witness ==
  /\ sideFile = SideMalformed
  /\ ~watchEv
  /\ cfgRO[BootCfg]
  /\ tpc["api"] = "idle"
  /\ resp = "ok"


C37_TimerDuration ==
  /\ Mul(Bytes(1, 4), Minute, 8) = <<0, 88, 71, 248, 13, 0, 0, 0>>
  /\ Mul(Bytes(60, 4), Minute, 8) = Hour
  /\ [][ ArmTimer =>
           /\ ~NonPositive(timer'.d)
           /\ timer.n <= 0 => timer'.d = Hour
           /\ timer.n >= 1 =>
                timer'.d \o <<0>> = Mul(Bytes(timer.n, 4), Minute, 9)
     ]_vars


(* ------------------------------------------------------------------ *)
(* Properties of the completion callback                                *)
(* ------------------------------------------------------------------ *)
\* C38: with a callback registered, a sync whose repository steps all
\* succeeded invokes it once: the loop enters the callback, and it leaves it
\* only by the callback's return, after which sync has returned nil and the
\* loop waits on its timer, so a further invocation needs a further sync.  A
\* sync of which a step failed, and a sync skipped because read-only is off,
\* invoke nothing; nothing but a successful sync invokes the callback.
C38_CallbackOncePerSuccess ==
  [][ /\ \A l \in AliveLoops :
           /\ (SyncEndWith(l, TRUE) /\ onSyncComplete) =>
                /\ BagIn([l EXCEPT !.pc = "callback"], loops')
                /\ NumAt("callback")' = NumAt("callback") + 1
           /\ SyncEndWith(l, FALSE) =>
                /\ NumAt("callback")' = NumAt("callback")
                /\ BagIn([l EXCEPT !.pc = "wait", !.cfg = NilCfg,
                                   !.syncErr = TRUE], loops')
           /\ (SyncBegin(l) /\ ~cfgRO[config]) =>
                /\ NumAt("callback")' = NumAt("callback")
                /\ NumAt("pull")' = NumAt("pull")
           /\ CallbackReturn(l) =>
                /\ NumAt("callback")' = NumAt("callback") - 1
                /\ BagIn([l EXCEPT !.pc = "wait", !.cfg = NilCfg,
                                   !.syncErr = FALSE], loops')
      /\ NumAt("callback")' > NumAt("callback") =>
           \E l \in AliveLoops : SyncEndWith(l, TRUE) /\ ~l.syncErr
      /\ NumAt("callback")' < NumAt("callback") =>
           \E l \in AliveLoops : CallbackReturn(l)
    ]_vars

\* C38 witness: a successful sync has brought the working copy to the
\* remote's head and its loop is inside the registered callback.
C38_Witness ==
  /\ NumAt("callback") = 1
  /\ NumLoops = 1
  /\ onSyncComplete
  /\ work = remoteHead
  /\ ~panicked


\* A step of its own that the loop goroutine can take where it stands.
LoopCanStep(l) ==
  \/ l.pc = "top" /\ ENABLED LoopTop(l)
  \/ l.pc = "check" /\ ENABLED LoopCheck(l)
  \/ l.pc = "sync" /\ ENABLED SyncBegin(l)
  \/ l.pc = "pull" /\ ENABLED SyncEnd(l)
  \/ l.pc = "callback" /\ tpc["loop"] = "idle" /\ ENABLED CallbackReturn(l)
  \/ l.pc = "callback" /\ tpc["loop"] # "idle"
       /\ ENABLED (MuFree /\ UpdateConfigDispatch("loop"))

\* C33: a loop goroutine holds s.mu at none of the places where it stays:
\* not in the timer wait, not in the idle wait, not during the repository
\* work and not while the callback runs, so Stop and Start called from
\* another goroutine get the lock at every moment; and outside the two
\* waits the loop always has a step of its own to take, while in a wait it
\* stays until the timer, the one-second tick or the cancellation ends it.
C33_LoopHoldsNoLock ==
  /\ [](\A l \in AliveLoops :
          l.pc \in {"wait", "idle", "pull", "callback"} => ~l.mu)
  /\ []((~panicked /\ tpc["main"] = "idle") =>
          /\ ENABLED (MuFree /\ CallStop)
          /\ ENABLED (MuFree /\ CallStart))
  /\ [](\A l \in AliveLoops :
          (~panicked /\ l.pc \notin {"wait", "idle"}) => LoopCanStep(l))
  /\ [][ \A l \in AliveLoops :
           (l.pc \in {"wait", "idle"} /\ ~BagIn(l, loops')
              /\ loops' # Replaced(loops)) =>
             (TimerFire(l) \/ IdleTick(l) \/ (l.ctxDone /\ LoopExit(l))
                \/ CtxCancel(l))
     ]_vars

\* C33 witness: one loop is in the repository work and another in its timer
\* wait while the main goroutine is free to call Stop.
C33_Witness ==
  /\ NumAt("pull") = 1
  /\ NumAt("wait") = 1
  /\ running
  /\ tpc["main"] = "idle"
  /\ ~panicked


\* C34: Stop, or UpdateConfig with read-only off, called from inside the
\* callback that the loop invoked is never blocked, returns without a panic
\* with the phase Stopped, and leaves the calling loop with a closed stop
\* signal, so that after the callback's return the loop exits at its wait.
C34_StopInsideCallback ==
  /\ [](\A l \in AliveLoops :
          (~panicked /\ l.pc = "callback" /\ tpc["loop"] = "idle") =>
             ENABLED CallbackStop(l))
  /\ [][ \A l \in AliveLoops :
           (CallbackStop(l) \/
              (l.pc = "callback" /\ tpc["loop"] = "uc_stop"
                 /\ UpdateConfigDispatch("loop"))) =>
             /\ ~panicked'
             /\ ~running'
             /\ tpc'["loop"] = "idle"
             /\ BagIn(l, loops')
             /\ ChClosed(l)'
     ]_vars


\* C35: once main makes no further Start or Stop call, every loop goroutine
\* whose stop signal is closed terminates, provided a sync in progress
\* returns: from some moment on no such goroutine is alive (or the process
\* has ended in a panic); and a loop that returns leaves no helper behind:
\* it returns either through ctx.Done, which the helper's cancel() made
\* ready before the helper ended, or at the running test with its stop
\* signal closed, on which the helper's receive completes.
C35_ClosedLoopsTerminate ==
  /\ [][ \A l \in AliveLoops :
           /\ LoopExit(l) => l.ctxDone
           /\ (LoopTop(l) /\ ~running) => (l.ctxDone \/ ChClosed(l))
     ]_vars
  /\ (<>[][~(CallStart \/ CallStop)]_vars) =>
       <>[](panicked \/ \A l \in AliveLoops : ~ChClosed(l))

\* C35 witness: Stop has closed the stop signal of a loop that is in its
\* timer wait, and the helper has cancelled the loop's context.
C35_Witness ==
  /\ ~running
  /\ stopCh = "closed"
  /\ lastCall = "stop"
  /\ \E l \in AliveLoops : l.pc = "wait" /\ l.ctxDone
  /\ ~panicked


(* ------------------------------------------------------------------ *)
(* Properties of concurrently handled requests                          *)
(* ------------------------------------------------------------------ *)
\* C32: whenever the concurrently handled SetReadOnly and SetSyncInterval
\* requests have all completed, the side file holds the in-memory read-only
\* flag and sync interval, and a reload of the file by the watcher then
\* changes neither.
C32_SideFileMatchesAfterRequests ==
  /\ []((/\ \A x \in Writers : race.w[x].pc \in {"idle", "done"}
         /\ \E x \in Writers : race.w[x].pc = "done") =>
          sideFile = SideDoc(cfgRO[hcfg], cfgInt[hcfg]))
  /\ [][ ((\A x \in Writers : race.w[x].pc = "done") /\ WatcherReload) =>
           (cfgRO' = cfgRO /\ cfgInt' = cfgInt)
     ]_vars

====
